---- MODULE Spec2Model ----
(***************************************************************************)
(* Model of courseconverter.js: the course tree builder, the component     *)
(* parser and renderer, the document assembler and the batch loop.         *)
(*                                                                         *)
(* Strings are sequences of tokens: a template literal `a ${x} b` is the   *)
(* sequence <<"a ", x, " b">>, concatenation is \o and '' is <<>>.  Every  *)
(* newline is a token of its own, so that a heading line can be found in   *)
(* a document.  A function that may throw returns Ok(value) or Err(msg).   *)
(***************************************************************************)
EXTENDS Integers, Sequences, FiniteSets, TLC

VARIABLES
  dir,       \* the extracted course directory that is being converted
  pc,        \* the position of the run
  tree,      \* the result of buildCourseTree, None before it
  doc,       \* the result of transformCourseToMarkdown, None before it
  arg,       \* the argument of the function that a run applies
  ret,       \* the result of that function, None before it
  courseIndex,        \* processCourses: the loop index i
  conversionResults,  \* processCourses: the results pushed so far
  fs         \* the directories below the temp root and the output directory

vars == <<dir, pc, tree, doc, arg, ret, courseIndex, conversionResults, fs>>

None == [st |-> "none"]

\* ---------------------------------------------------------------- bounds
MaxRefs == 2

\* ------------------------------------------------------- results, strings
Ok(v) == [ok |-> TRUE, val |-> v]
Err(m) == [ok |-> FALSE, msg |-> m]

\* const v = e; the value is computed once and handed to the rest
Bind(e, Body(_)) == CHOOSE r \in {Body(v) : v \in {e}} : TRUE

\* a call that may throw: the rest runs on its value, a throw passes through
Try(e, Body(_)) == CHOOSE r \in {IF v.ok THEN Body(v.val) ELSE v : v \in {e}} : TRUE

\* try { e } catch (error) { Handler(error.message) }
Catch(e, Handler(_)) == CHOOSE r \in {IF v.ok THEN v ELSE Handler(v.msg) : v \in {e}} : TRUE

NL == "\n"

\* Array.prototype.join: the elements separated by sep
RECURSIVE Join(_, _)
Join(lines, sep) ==
  IF lines = <<>> THEN <<>>
  ELSE IF Len(lines) = 1 THEN lines[1]
  ELSE lines[1] \o <<sep>> \o Join(Tail(lines), sep)

\* '#'.repeat(n)
Hashes(n) == CASE n = 1 -> "#" [] n = 2 -> "##" [] n = 3 -> "###"
               [] n = 4 -> "####" [] OTHER -> "#####"

\* String.prototype.toLowerCase / toUpperCase on the tag and kind names used
LowerCase(s) ==
  CASE s \in {"html", "HTML", "Html"} -> "html"
    [] s \in {"problem", "PROBLEM"} -> "problem"
    [] s \in {"video", "VIDEO"} -> "video"
    [] s \in {"about", "ABOUT"} -> "about"
    [] s \in {"discussion", "Discussion"} -> "discussion"
    [] s \in {"unknown", "UNKNOWN"} -> "unknown"
    [] s \in {"true", "True", "TRUE"} -> "true"
    [] s \in {".png", ".PNG"} -> ".png"
    [] OTHER -> s

UpperCase(s) ==
  CASE s = "html" -> "HTML" [] s = "problem" -> "PROBLEM"
    [] s = "video" -> "VIDEO" [] s = "about" -> "ABOUT"
    [] s = "chapter" -> "CHAPTER" [] s = "sequential" -> "SEQUENTIAL"
    [] s = "vertical" -> "VERTICAL" [] s = "course" -> "COURSE"
    [] OTHER -> s

\* ------------------------------------------------------- parsed XML values
(* An element as fast-xml-parser (ignoreAttributes: false, prefix '@_')    *)
(* returns it: attrs maps attribute names to values, kids maps a child tag *)
(* to the child elements of that tag in document order.  An element with   *)
(* no attribute and no child is parsed as the empty string.                *)
Elem(attrs, kids) == [attrs |-> attrs, kids |-> kids]
NoAttrs == [a \in {} |-> ""]
NoKids == [t \in {} |-> <<>>]
EmptyObject == Elem(NoAttrs, NoKids)

\* node['@_name']: "" stands for undefined (both are falsy)
Attr(node, name) == IF name \in DOMAIN node.attrs THEN node.attrs[name] ELSE ""

IsBare(e) == DOMAIN e.attrs = {} /\ \A t \in DOMAIN e.kids : e.kids[t] = <<>>

\* node[tag]: undefined, the single child, or the array of children
Prop(node, tag) ==
  LET l == IF tag \in DOMAIN node.kids THEN node.kids[tag] ELSE <<>>
  IN IF l = <<>> THEN [t |-> "undefined"]
     ELSE IF Len(l) = 1 THEN [t |-> "single", v |-> l[1]]
     ELSE [t |-> "array", v |-> l]

EmptyArray == [t |-> "array", v |-> <<>>]

\* JavaScript truthiness of such a value: '' (a bare element) is falsy
Truthy(val) == val.t = "array" \/ (val.t = "single" /\ ~IsBare(val.v))

\* a || b || []
OrElse(a, b, c) == IF Truthy(a) THEN a ELSE IF Truthy(b) THEN b ELSE c

toArray(maybeArray) ==
  IF maybeArray.t = "undefined" THEN <<>>
  ELSE IF maybeArray.t = "array" THEN maybeArray.v
  ELSE <<maybeArray.v>>

\* s1 || s2 || s3 on attribute values
Or3(a, b, c) == IF a # "" THEN a ELSE IF b # "" THEN b ELSE c

\* ------------------------------------------------------------ file system
(* A course directory maps a file stem to a file.  A file is Absent, or   *)
(* Unreadable (it exists and reading it throws), or File(root, node) with  *)
(* its root tag ("" for an empty file) and its root element.               *)
File(root, node) == [st |-> "ok", root |-> root, node |-> node]
Absent == [st |-> "absent"]
Unreadable == [st |-> "unreadable"]

\* courseRoot.existsSync
Exists(folder, name) == name \in DOMAIN folder /\ folder[name].st # "absent"

\* readXmlAsObject followed by obj.tag || obj.TAG || {}
RootNode(file, tag) ==
  IF file.root \in {tag, UpperCase(tag)} /\ ~IsBare(file.node) THEN file.node
  ELSE EmptyObject

\* a reader that rejects an empty document or a foreign root element
readXmlAsObjectStrict(file) ==
  IF file.st = "unreadable" THEN Err(<<"EACCES: permission denied">>)
  ELSE IF file.root \notin {"course", "chapter", "sequential", "vertical", "html",
                            "problem", "video", "COURSE", "CHAPTER", "SEQUENTIAL",
                            "VERTICAL", "VIDEO"}
  THEN Err(<<"Invalid XML document">>)
  ELSE Ok(file)

readXmlAsObject(file) ==
  IF file.st = "unreadable" THEN Err(<<"EACCES: permission denied">>) ELSE Ok(file)

\* toArray(node.tag || node.TAG || []).map(n => n['@_url_name']).filter(Boolean)
RECURSIVE UrlNames(_)
UrlNames(items) ==
  IF items = <<>> THEN <<>>
  ELSE IF Attr(Head(items), "url_name") # ""
       THEN <<Attr(Head(items), "url_name")>> \o UrlNames(Tail(items))
       ELSE UrlNames(Tail(items))

ChildRefs(node, tag) ==
  UrlNames(toArray(OrElse(Prop(node, tag), Prop(node, UpperCase(tag)), EmptyArray)))

\* a title without the fall-back to the reference
TitleOfDisplayName(node, ref) ==
  <<Or3(Attr(node, "display_name"), Attr(node, "<display_name>"), "")>>

\* node['@_display_name'] || node.display_name || ref
\* (a text-only child element <t>..</t> is kept under the key "<t>")
TitleOf(node, ref) ==
  <<Or3(Attr(node, "display_name"), Attr(node, "<display_name>"), ref)>>

\* path.join(courseRoot, dir, name + ext), as a string
PathOf(courseRoot, sub, name, ext) == <<courseRoot.root, "/", sub, "/", name, ext>>

\* ------------------------------------------------------ course tree builder
\* collectComponentRefs: one ref per child of each known kind, kind by kind
knownKinds == <<"html", "problem", "video", "about">>

RECURSIVE RefsOfItems(_, _)
RefsOfItems(kind, items) ==
  IF items = <<>> THEN <<>>
  ELSE LET it == Head(items)
           id == Or3(Attr(it, "url_name"), Attr(it, "url"), Attr(it, "filename"))
       IN <<[kind |-> kind, id |-> IF id # "" THEN id ELSE "unknown"]>>
          \o RefsOfItems(kind, Tail(items))

RECURSIVE CollectFrom(_, _)
CollectFrom(verticalNode, k) ==
  IF k > Len(knownKinds) THEN <<>>
  ELSE LET kind == knownKinds[k]
           items == toArray(OrElse(Prop(verticalNode, kind),
                                   Prop(verticalNode, UpperCase(kind)), EmptyArray))
       IN RefsOfItems(kind, items) \o CollectFrom(verticalNode, k + 1)

collectComponentRefs(verticalNode) == CollectFrom(verticalNode, 1)

parseVertical(courseRoot, ref) ==
  IF ~Exists(courseRoot.vertical, ref)
  THEN Ok([id |-> ref, title |-> <<"Missing vertical ", ref>>, components |-> <<>>])
  ELSE Try(readXmlAsObject(courseRoot.vertical[ref]),
           LAMBDA obj : Ok([id |-> ref,
                            title |-> TitleOf(RootNode(obj, "vertical"), ref),
                            components |->
                              collectComponentRefs(RootNode(obj, "vertical"))]))

\* verticalRefs.map(...): the first throw ends the map
RECURSIVE parseVerticals(_, _)
parseVerticals(courseRoot, verticalRefs) ==
  IF verticalRefs = <<>> THEN Ok(<<>>)
  ELSE Try(parseVertical(courseRoot, Head(verticalRefs)),
           LAMBDA h : Try(parseVerticals(courseRoot, Tail(verticalRefs)),
                          LAMBDA t : Ok(<<h>> \o t)))

parseSequential(courseRoot, ref) ==
  IF ~Exists(courseRoot.sequential, ref)
  THEN Ok([id |-> ref, title |-> <<"Missing sequential ", ref>>, verticals |-> <<>>])
  ELSE Try(readXmlAsObject(courseRoot.sequential[ref]),
           LAMBDA obj :
             Try(parseVerticals(courseRoot,
                                ChildRefs(RootNode(obj, "sequential"), "vertical")),
                 LAMBDA verticals :
                   Ok([id |-> ref,
                       title |-> TitleOf(RootNode(obj, "sequential"), ref),
                       verticals |-> verticals])))

RECURSIVE parseSequentials(_, _)
parseSequentials(courseRoot, sequentialRefs) ==
  IF sequentialRefs = <<>> THEN Ok(<<>>)
  ELSE Try(parseSequential(courseRoot, Head(sequentialRefs)),
           LAMBDA h : Try(parseSequentials(courseRoot, Tail(sequentialRefs)),
                          LAMBDA t : Ok(<<h>> \o t)))

\* a chapter parser that throws on an absent file instead of degrading
parseChapterThrows(courseRoot, ref) ==
  IF ~Exists(courseRoot.chapter, ref)
  THEN Err(<<"Missing chapter file: ">> \o PathOf(courseRoot, "chapter", ref, ".xml"))
  ELSE Try(readXmlAsObject(courseRoot.chapter[ref]),
           LAMBDA obj :
             Try(parseSequentials(courseRoot,
                                  ChildRefs(RootNode(obj, "chapter"), "sequential")),
                 LAMBDA sequentials :
                   Ok([id |-> ref,
                       title |-> TitleOf(RootNode(obj, "chapter"), ref),
                       sequentials |-> sequentials])))

\* a chapter parser whose placeholder is titled by the reference alone
parseChapterUntitled(courseRoot, ref) ==
  IF ~Exists(courseRoot.chapter, ref)
  THEN Ok([id |-> ref, title |-> <<ref>>, sequentials |-> <<>>])
  ELSE Try(readXmlAsObject(courseRoot.chapter[ref]),
           LAMBDA obj :
             Try(parseSequentials(courseRoot,
                                  ChildRefs(RootNode(obj, "chapter"), "sequential")),
                 LAMBDA sequentials :
                   Ok([id |-> ref,
                       title |-> TitleOf(RootNode(obj, "chapter"), ref),
                       sequentials |-> sequentials])))

parseChapter(courseRoot, ref) ==
  IF ~Exists(courseRoot.chapter, ref)
  THEN Ok([id |-> ref, title |-> <<"Missing chapter ", ref>>, sequentials |-> <<>>])
  ELSE Try(readXmlAsObject(courseRoot.chapter[ref]),
           LAMBDA obj :
             Try(parseSequentials(courseRoot,
                                  ChildRefs(RootNode(obj, "chapter"), "sequential")),
                 LAMBDA sequentials :
                   Ok([id |-> ref,
                       title |-> TitleOf(RootNode(obj, "chapter"), ref),
                       sequentials |-> sequentials])))

\* a chapter list built back to front
RECURSIVE parseChaptersReversed(_, _)
parseChaptersReversed(courseRoot, chapterRefs) ==
  IF chapterRefs = <<>> THEN Ok(<<>>)
  ELSE Try(parseChapter(courseRoot, Head(chapterRefs)),
           LAMBDA h : Try(parseChaptersReversed(courseRoot, Tail(chapterRefs)),
                          LAMBDA t : Ok(t \o <<h>>)))

RECURSIVE parseChapters(_, _)
parseChapters(courseRoot, chapterRefs) ==
  IF chapterRefs = <<>> THEN Ok(<<>>)
  ELSE Try(parseChapter(courseRoot, Head(chapterRefs)),
           LAMBDA h : Try(parseChapters(courseRoot, Tail(chapterRefs)),
                          LAMBDA t : Ok(<<h>> \o t)))

\* the metadata read from the node that holds the course details
CourseMeta(node, urlName, courseCode) ==
  [title |-> <<Or3(Attr(node, "display_name"), Attr(node, "<display_name>"),
                   Or3(urlName, "Untitled Course", ""))>>,
   courseId |-> Or3(Attr(node, "course"), courseCode,
                    Or3(Attr(node, "url_name"), urlName, "unknown")),
   chapterRefs |-> ChildRefs(node, "chapter")]

parseCourseXml(courseRoot) ==
  IF courseRoot.courseXml.st = "absent"
  THEN Err(<<"course.xml not found at ", courseRoot.root, "/", "course.xml">>)
  ELSE Try(readXmlAsObject(courseRoot.courseXml),
           LAMBDA rootObj :
             Bind(RootNode(rootObj, "course"),
                  LAMBDA rootNode :
                    Try(IF Attr(rootNode, "url_name") # ""
                           /\ Exists(courseRoot.course, Attr(rootNode, "url_name"))
                        THEN readXmlAsObject(courseRoot.course[Attr(rootNode, "url_name")])
                        ELSE Ok(rootObj),
                        LAMBDA obj :
                          Ok(CourseMeta(RootNode(obj, "course"),
                                        Attr(rootNode, "url_name"),
                                        Attr(rootNode, "course"))))))

buildCourseTree(courseRoot) ==
  Try(parseCourseXml(courseRoot),
      LAMBDA meta :
        Try(parseChapters(courseRoot, meta.chapterRefs),
            LAMBDA chapters :
              Ok([id |-> meta.courseId, title |-> meta.title, chapters |-> chapters])))

\* ------------------------------------------------------- component parsing
(* A component IR: type, content, filename, displayName and the subtype    *)
(* fields problemType, videoType, aboutType ("" where the code sets none). *)
IR(type, content, filename, displayName, sub) ==
  [type |-> type, content |-> content, filename |-> filename,
   displayName |-> displayName,
   problemType |-> IF type = "problem" THEN sub ELSE "",
   videoType |-> IF type = "video" THEN sub ELSE "",
   aboutType |-> IF type = "about" THEN sub ELSE ""]

\* component.displayName: undefined on the refs that collectComponentRefs builds
RefDisplayName(component) ==
  IF "displayName" \in DOMAIN component THEN component.displayName ELSE ""

\* an object value: the properties of an array or of undefined are undefined
AsObject(val) == IF val.t = "single" THEN val.v ELSE EmptyObject

\* an html parser that takes a missing body for an empty one
parseHtmlComponentLenient(courseRoot, componentId) ==
  IF ~Exists(courseRoot.htmlXml, componentId)
  THEN Err(<<"HTML component XML not found: ">> \o PathOf(courseRoot, "html", componentId, ".xml"))
  ELSE Try(readXmlAsObject(courseRoot.htmlXml[componentId]),
           LAMBDA xmlObj :
             Ok(IR("html",
                   IF Exists(courseRoot.htmlBody, componentId)
                   THEN courseRoot.htmlBody[componentId].text ELSE "",
                   componentId,
                   Or3(Attr(RootNode(xmlObj, "html"), "display_name"), componentId, ""),
                   "")))

parseHtmlComponent(courseRoot, componentId) ==
  IF ~Exists(courseRoot.htmlXml, componentId)
  THEN Err(<<"HTML component XML not found: ">> \o PathOf(courseRoot, "html", componentId, ".xml"))
  ELSE IF ~Exists(courseRoot.htmlBody, componentId)
  THEN Err(<<"HTML component content not found: ">>
           \o PathOf(courseRoot, "html", componentId, ".html"))
  ELSE LET htmlContent == courseRoot.htmlBody[componentId].text
           xmlObj == readXmlAsObject(courseRoot.htmlXml[componentId])
       IN IF ~xmlObj.ok THEN xmlObj
          ELSE LET xmlNode == RootNode(xmlObj.val, "html")
               IN Ok(IR("html", htmlContent, componentId,
                        Or3(Attr(xmlNode, "display_name"), componentId, ""), ""))

determineProblemType(problem) ==
  IF Truthy(Prop(problem, "multiplechoiceresponse")) THEN "multiple_choice"
  ELSE IF Truthy(Prop(problem, "choiceresponse"))
  THEN LET choiceResponse == AsObject(Prop(problem, "choiceresponse"))
       IN IF Truthy(Prop(choiceResponse, "checkboxgroup")) THEN "multiple_choice"
          ELSE IF Truthy(Prop(choiceResponse, "choicegroup")) THEN "choice"
          ELSE "choice"
  ELSE IF Truthy(Prop(problem, "optionresponse")) THEN "selection"
  ELSE IF Truthy(Prop(problem, "stringresponse")) THEN "text_input"
  ELSE IF Truthy(Prop(problem, "numericalresponse")) THEN "number_input"
  ELSE IF Truthy(Prop(problem, "formularesponse")) THEN "formula"
  ELSE IF Truthy(Prop(problem, "coderesponse")) THEN "code"
  ELSE "unknown"

parseProblemComponent(courseRoot, component) ==
  LET id == component.id
  IN IF ~Exists(courseRoot.problem, id)
     THEN Err(<<"Problem file not found: ">> \o PathOf(courseRoot, "problem", id, ".xml"))
     ELSE LET parsed == readXmlAsObject(courseRoot.problem[id])
          IN IF ~parsed.ok THEN parsed
             ELSE IF ~(parsed.val.root = "problem" /\ ~IsBare(parsed.val.node))
             THEN Err(<<"Invalid problem XML structure: ", id>>)
             ELSE LET problem == parsed.val.node
                  IN Ok(IR("problem", problem, id,
                           Or3(Attr(problem, "display_name"), RefDisplayName(component), id),
                           determineProblemType(problem)))

\* a type detection that looks at url_name before youtube
determineVideoTypeUrlFirst(video) ==
  IF Attr(video, "url_name") # "" THEN "external"
  ELSE IF Attr(video, "youtube") # "" THEN "youtube"
  ELSE "unknown"

determineVideoType(video) ==
  IF Attr(video, "youtube") # "" THEN "youtube"
  ELSE IF Attr(video, "url_name") # "" THEN "external"
  ELSE "unknown"

parseVideoComponent(courseRoot, component) ==
  LET id == component.id
  IN IF ~Exists(courseRoot.video, id)
     THEN Err(<<"Video file not found: ">> \o PathOf(courseRoot, "video", id, ".xml"))
     ELSE LET parsed == readXmlAsObject(courseRoot.video[id])
          IN IF ~parsed.ok THEN parsed
             ELSE IF ~(parsed.val.root = "video" /\ ~IsBare(parsed.val.node))
             THEN Err(<<"Invalid video XML structure: ", id>>)
             ELSE LET video == parsed.val.node
                  IN Ok(IR("video", video, id,
                           Or3(Attr(video, "display_name"), RefDisplayName(component), id),
                           determineVideoType(video)))

\* aboutFiles.filter(file => file.endsWith('.html'))
RECURSIVE HtmlFilesOf(_)
HtmlFilesOf(files) ==
  IF files = <<>> THEN <<>>
  ELSE IF Head(files).ext = ".html" THEN <<Head(files)>> \o HtmlFilesOf(Tail(files))
  ELSE HtmlFilesOf(Tail(files))

parseAboutComponent(courseRoot, component) ==
  IF courseRoot.about.st = "absent"
  THEN Err(<<"About directory not found: ", courseRoot.root, "/", "about">>)
  ELSE LET htmlFiles == HtmlFilesOf(courseRoot.about.files)
       IN IF Len(htmlFiles) = 0
          THEN Err(<<"No HTML files found in about directory: ", courseRoot.root, "/", "about">>)
          ELSE Ok(IR("about", htmlFiles[1].text, htmlFiles[1].name,
                     Or3(RefDisplayName(component), "About This Course", ""), "html"))

\* a parser that reports an unknown kind in lower case
parseComponentLowerKind(courseRoot, component) ==
  IF courseRoot.root = "" THEN Err(<<"Invalid parameters: courseRoot and component are required">>)
  ELSE IF component.kind = "" \/ component.id = ""
  THEN Err(<<"Invalid component: kind and id are required">>)
  ELSE CASE LowerCase(component.kind) = "html" ->
              parseHtmlComponent(courseRoot, component.id)
         [] LowerCase(component.kind) = "problem" ->
              parseProblemComponent(courseRoot, component)
         [] LowerCase(component.kind) = "video" -> parseVideoComponent(courseRoot, component)
         [] LowerCase(component.kind) = "about" -> parseAboutComponent(courseRoot, component)
         [] OTHER -> Ok(IR("unknown",
                           <<"*Unsupported component type: ", LowerCase(component.kind),
                             " (", component.id, ")*">>,
                           component.id, component.id, ""))

parseComponent(courseRoot, component) ==
  IF courseRoot.root = "" THEN Err(<<"Invalid parameters: courseRoot and component are required">>)
  ELSE IF component.kind = "" \/ component.id = ""
  THEN Err(<<"Invalid component: kind and id are required">>)
  ELSE LET kind == component.kind
           id == component.id
       IN CASE LowerCase(kind) = "html" -> parseHtmlComponent(courseRoot, id)
            [] LowerCase(kind) = "problem" -> parseProblemComponent(courseRoot, component)
            [] LowerCase(kind) = "video" -> parseVideoComponent(courseRoot, component)
            [] LowerCase(kind) = "about" -> parseAboutComponent(courseRoot, component)
            [] OTHER -> Ok(IR("unknown",
                              <<"*Unsupported component type: ", kind, " (", id, ")*">>,
                              id, id, ""))

\* ------------------------------------------------------ component rendering
\* sanitizeFileName and the /static/ rewrite, on the bodies the model uses
rewriteMediaPaths(htmlContent) ==
  CASE htmlContent = "<img src='/static/my pic.png'>" -> "<img src=\"./media/my_pic.png\">"
    [] OTHER -> htmlContent

\* NodeHtmlMarkdown.translate followed by trim(), on the bodies the model uses
TranslateHtml(processedContent) ==
  CASE processedContent = "" -> <<>>
    [] processedContent = "<p>Hello</p>" -> <<"Hello">>
    [] processedContent = "<h2>Part</h2>" -> <<"##", " ", "Part">>
    [] processedContent = "<img src=\"./media/my_pic.png\">" -> <<"![](./media/my_pic.png)">>
    [] OTHER -> <<processedContent>>

renderHtmlContent(htmlIR) ==
  IF htmlIR.type # "html" THEN Err(<<"Invalid HTML component data">>)
  ELSE LET markdown == TranslateHtml(rewriteMediaPaths(htmlIR.content))
       IN IF markdown = <<>> THEN Ok(<<"*No content available*">>) ELSE Ok(markdown)

\* fast-xml-parser turns a numeric text into a number
NumericTexts == {"5"}

\* String.prototype.trim on the texts the model uses
Trim(s) ==
  CASE s = " padded " -> "padded" [] s = "   " -> "" [] s = "good " -> "good" [] OTHER -> s

\* a text-only (or bare) element is parsed as its text, not as an object
IsTextOnly(e) ==
  DOMAIN e.attrs \subseteq {"#text"} /\ \A t \in DOMAIN e.kids : e.kids[t] = <<>>

\* typeof v === 'string': a text-only element whose text is no number
IsStringValue(e) == IsTextOnly(e) /\ Attr(e, "#text") \notin NumericTexts

\* one forEach body of extractHints: the texts it pushes; a number has no trim
HintText(hint) ==
  IF IsStringValue(hint) THEN Ok(<<Trim(Attr(hint, "#text"))>>)
  ELSE IF ~IsTextOnly(hint) /\ Attr(hint, "#text") # ""
  THEN IF Attr(hint, "#text") \in NumericTexts
       THEN Err(<<"hint['#text'].trim is not a function">>)
       ELSE Ok(<<Trim(Attr(hint, "#text"))>>)
  ELSE Ok(<<>>)

RECURSIVE HintTexts(_)
HintTexts(items) ==
  IF items = <<>> THEN Ok(<<>>)
  ELSE Try(HintText(Head(items)),
           LAMBDA h : Try(HintTexts(Tail(items)), LAMBDA t : Ok(h \o t)))

HintGroup(content, tag) ==
  IF Truthy(Prop(content, tag)) THEN HintTexts(toArray(Prop(content, tag))) ELSE Ok(<<>>)

RECURSIVE FilterBoolean(_)
FilterBoolean(texts) ==
  IF texts = <<>> THEN <<>>
  ELSE IF Head(texts) # "" THEN <<Head(texts)>> \o FilterBoolean(Tail(texts))
  ELSE FilterBoolean(Tail(texts))

extractHints(content) ==
  Try(HintGroup(content, "hint"),
      LAMBDA h :
        Try(HintGroup(content, "demotedhint"),
            LAMBDA d :
              Try(HintGroup(content, "description"),
                  LAMBDA e : Ok(FilterBoolean(h \o d \o e)))))

\* hints.forEach(hint => lines.push(`- [[?]] ${hint}`))
RECURSIVE HintLines(_)
HintLines(hints) ==
  IF hints = <<>> THEN <<>>
  ELSE <<(<<"- [[?]] ", Head(hints)>>)>> \o HintLines(Tail(hints))

\* the p and label paragraphs that every renderer pushes first
PromptLines(node) ==
  (IF Attr(node, "<p>") # "" THEN <<(<<Attr(node, "<p>"), NL>>)>> ELSE <<>>)
  \o (IF Attr(node, "<label>") # "" THEN <<(<<Attr(node, "<label>"), NL>>)>> ELSE <<>>)

\* `${choice['#text'] || choice}`
ChoiceText(choice) ==
  IF Attr(choice, "#text") # "" THEN Attr(choice, "#text")
  ELSE IF IsBare(choice) THEN "" ELSE "[object Object]"

RECURSIVE ChoiceBullets(_, _, _)
ChoiceBullets(choices, markCorrect, markWrong) ==
  IF choices = <<>> THEN <<>>
  ELSE LET choice == Head(choices)
           marker == IF Attr(choice, "correct") = "true" THEN markCorrect ELSE markWrong
       IN <<(<<"- ", marker, " ", ChoiceText(choice)>>)>>
          \o ChoiceBullets(Tail(choices), markCorrect, markWrong)

\* group && group.choice && Array.isArray(group.choice)
GroupBullets(response, groupTag, markCorrect, markWrong) ==
  LET group == AsObject(Prop(response, groupTag))
  IN IF Prop(group, "choice").t = "array"
     THEN ChoiceBullets(Prop(group, "choice").v, markCorrect, markWrong)
     ELSE <<>>

\* the lines one response element contributes: prompt, bullets, hints
\* the lines of a response element with the hints ahead of the choices
ResponseLinesHintsFirst(content, responseTag, groupTag, markCorrect, markWrong) ==
  IF ~Truthy(Prop(content, responseTag)) THEN Ok(<<>>)
  ELSE Try(extractHints(AsObject(Prop(content, responseTag))),
           LAMBDA hints :
             Ok(PromptLines(AsObject(Prop(content, responseTag)))
                \o HintLines(hints)
                \o GroupBullets(AsObject(Prop(content, responseTag)), groupTag,
                                markCorrect, markWrong)))

ResponseLines(content, responseTag, groupTag, markCorrect, markWrong) ==
  IF ~Truthy(Prop(content, responseTag)) THEN Ok(<<>>)
  ELSE Try(extractHints(AsObject(Prop(content, responseTag))),
           LAMBDA hints :
             Ok(PromptLines(AsObject(Prop(content, responseTag)))
                \o GroupBullets(AsObject(Prop(content, responseTag)), groupTag,
                                markCorrect, markWrong)
                \o HintLines(hints)))

renderMultipleChoiceProblem(content, displayName) ==
  Try(ResponseLines(content, "multiplechoiceresponse", "choicegroup", "[[X]]", "[[ ]]"),
      LAMBDA m :
        Try(ResponseLines(content, "choiceresponse", "checkboxgroup", "[[X]]", "[[ ]]"),
            LAMBDA c : Ok(Join(m \o c, NL))))

renderChoiceProblem(content, displayName) ==
  Try(ResponseLines(content, "choiceresponse", "choicegroup", "[(X)]", "[( )]"),
      LAMBDA c : Ok(Join(c, NL)))

RECURSIVE OptionTexts(_)
OptionTexts(options) ==
  IF options = <<>> THEN <<>>
  ELSE LET opt == Head(options)
           text == IF IsStringValue(opt) \/ ~IsTextOnly(opt) THEN Attr(opt, "#text") ELSE ""
           isCorrect == ~IsTextOnly(opt) /\ LowerCase(Attr(opt, "correct")) = "true"
       IN <<(IF isCorrect THEN <<"( ", text, " )">> ELSE <<text>>)>>
          \o OptionTexts(Tail(options))

\* optioninput.option, or the optioninput elements themselves when there is none
OptionsOf(node) ==
  IF Truthy(Prop(node, "optioninput"))
  THEN toArray(Prop(AsObject(Prop(node, "optioninput")), "option"))
  ELSE toArray(Prop(node, "optioninput"))

OptionLine(options) ==
  IF Len(options) > 0
  THEN <<(<<"[[ ">> \o Join(OptionTexts(options), " | ") \o <<" ]]">>)>>
  ELSE <<>>

renderSelectionProblem(content, displayName) ==
  IF ~Truthy(Prop(content, "optionresponse")) THEN Ok(<<>>)
  ELSE Try(extractHints(AsObject(Prop(content, "optionresponse"))),
           LAMBDA hints :
             Ok(Join(PromptLines(AsObject(Prop(content, "optionresponse")))
                     \o OptionLine(OptionsOf(AsObject(Prop(content, "optionresponse"))))
                     \o HintLines(hints), NL)))

\* additional_answer.map(v => (typeof v === 'string' ? v : v['@_answer'] || '').trim())
RECURSIVE VariantAnswers(_)
VariantAnswers(items) ==
  IF items = <<>> THEN <<>>
  ELSE LET v == Head(items)
       IN <<Trim(IF IsStringValue(v) THEN Attr(v, "#text") ELSE Attr(v, "answer"))>>
          \o VariantAnswers(Tail(items))

\* allAnswers.join(' | ')
RECURSIVE JoinTokens(_, _)
JoinTokens(tokens, sep) ==
  IF tokens = <<>> THEN <<>>
  ELSE IF Len(tokens) = 1 THEN tokens
  ELSE <<Head(tokens), sep>> \o JoinTokens(Tail(tokens), sep)

\* the answers with the empty ones left in
AllAnswersUnfiltered(stringResponse) ==
  <<Trim(Attr(stringResponse, "answer"))>>
  \o VariantAnswers(toArray(Prop(stringResponse, "additional_answer")))

\* [primary, ...variants].filter(Boolean)
AllAnswers(stringResponse) ==
  FilterBoolean(<<Trim(Attr(stringResponse, "answer"))>>
                \o FilterBoolean(VariantAnswers(
                                   toArray(Prop(stringResponse, "additional_answer")))))

AnswerLine(allAnswers) ==
  IF Len(allAnswers) > 0
  THEN <<(<<NL, "    [[">> \o JoinTokens(allAnswers, " | ") \o <<"]]", NL>>)>>
  ELSE <<(<<NL, "    [[ ]]", NL>>)>>

renderTextInputProblem(content, displayName) ==
  IF ~Truthy(Prop(content, "stringresponse")) THEN Ok(<<>>)
  ELSE Try(extractHints(AsObject(Prop(content, "stringresponse"))),
           LAMBDA hints :
             Ok(Join(PromptLines(AsObject(Prop(content, "stringresponse")))
                     \o AnswerLine(AllAnswers(AsObject(Prop(content, "stringresponse"))))
                     \o HintLines(hints), NL)))

renderNumberInputProblem(content, displayName) ==
  IF ~Truthy(Prop(content, "numericalresponse")) THEN Ok(<<>>)
  ELSE Try(extractHints(AsObject(Prop(content, "numericalresponse"))),
           LAMBDA hints :
             Ok(Join(PromptLines(AsObject(Prop(content, "numericalresponse")))
                     \o <<(<<"    [[Enter a number]]", NL>>)>>
                     \o HintLines(hints), NL)))

\* the marker line is a Chinese sentence around the type; it reads "only multiple
\* choice, single choice, dropdown, text input and number input problems are
\* supported, type <problemType> is not supported yet"
renderUnsupportedProblem(content, displayName, problemType) ==
  Try(extractHints(content),
      LAMBDA hints :
        Ok(Join((IF Attr(content, "<p>") # "" THEN <<(<<Attr(content, "<p>"), NL>>)>>
                 ELSE <<>>)
                \o (IF displayName # "" THEN <<(<<displayName, NL>>)>> ELSE <<>>)
                \o <<(<<"*only multiple/single choice, dropdown, text and number input ",
                        "problems are supported, type ", problemType,
                        " is not supported yet*", NL>>)>>
                \o HintLines(hints), NL)))

renderProblemComponent(problemIR) ==
  IF problemIR.type # "problem" THEN Err(<<"Invalid problem component data">>)
  ELSE LET content == problemIR.content
           displayName == problemIR.displayName
           problemType == problemIR.problemType
       IN CASE problemType = "multiple_choice" ->
                 renderMultipleChoiceProblem(content, displayName)
            [] problemType = "choice" -> renderChoiceProblem(content, displayName)
            [] problemType = "selection" -> renderSelectionProblem(content, displayName)
            [] problemType = "text_input" -> renderTextInputProblem(content, displayName)
            [] problemType = "number_input" -> renderNumberInputProblem(content, displayName)
            [] OTHER -> renderUnsupportedProblem(content, displayName, problemType)

\* youtubeAttr.split(':') on the attribute values the model uses
SplitColon(s) ==
  CASE s = "1.00:abc123" -> <<"1.00", "abc123">>
    [] s = "1.00:" -> <<"1.00", "">>
    [] s = "1.00:abc123,1.50:def456" -> <<"1.00", "abc123,1.50", "def456">>
    [] OTHER -> <<s>>

\* a youtube renderer that takes the first field for the video id
renderYouTubeVideoFirstField(content, displayName) ==
  IF Attr(content, "youtube") = "" THEN <<>>
  ELSE Join(<< <<"**", displayName, "**", NL>>,
               <<"Watch the video below:", NL>>,
               <<NL, "!?[", displayName, "](https://www.youtube.com/watch?v=",
                 SplitColon(Attr(content, "youtube"))[1], ")", NL>> >>, NL)

renderYouTubeVideo(content, displayName) ==
  LET youtubeAttr == Attr(content, "youtube")
      parts == SplitColon(youtubeAttr)
  IN IF youtubeAttr = "" THEN <<>>
     ELSE IF Len(parts) >= 2
     THEN Join(<< <<"**", displayName, "**", NL>>,
                  <<"Watch the video below:", NL>>,
                  <<NL, "!?[", displayName, "](https://www.youtube.com/watch?v=",
                    parts[2], ")", NL>> >>, NL)
     ELSE Join(<< <<"**", displayName, "**", NL>>,
                  <<"*Video ID could not be extracted*", NL>> >>, NL)

renderExternalVideo(content, displayName) ==
  LET urlName == Attr(content, "url_name")
  IN IF urlName # ""
     THEN Join(<< <<"**", displayName, "**", NL>>,
                  <<"Watch the video below:", NL>>,
                  <<NL, "!?[", displayName, "](", urlName, ")", NL>> >>, NL)
     ELSE Join(<< <<"**", displayName, "**", NL>>,
                  <<"*Video URL not found*", NL>> >>, NL)

\* the second line is a Chinese sentence: "only YouTube and external URL videos
\* are supported, other video types are not supported yet"
renderUnsupportedVideo(content, displayName) ==
  Join(<< <<"**", displayName, "**", NL>>,
          <<"*only YouTube and external URL videos are supported*", NL>> >>, NL)

renderVideoComponent(videoIR) ==
  IF videoIR.type # "video" THEN Err(<<"Invalid video component data">>)
  ELSE CASE videoIR.videoType = "youtube" ->
              Ok(renderYouTubeVideo(videoIR.content, videoIR.displayName))
         [] videoIR.videoType = "external" ->
              Ok(renderExternalVideo(videoIR.content, videoIR.displayName))
         [] OTHER -> Ok(renderUnsupportedVideo(videoIR.content, videoIR.displayName))

renderAboutHtml(content, displayName) ==
  LET markdown == TranslateHtml(rewriteMediaPaths(content))
  IN Join(<< <<"##", " ", displayName, NL>>,
             (IF markdown # <<>> THEN markdown ELSE <<"*No content available*">>),
             <<NL, "---", NL>> >>, NL)

\* (the code fence of the source is written ~~~ here)
renderUnknownAbout(content, displayName) ==
  Join(<< <<"##", " ", displayName, NL>>,
          <<"*This about type is not yet supported.*", NL>>,
          <<"~~~json", NL, "JSON.stringify(content)", NL, "~~~", NL>>,
          <<NL, "---", NL>> >>, NL)

renderAboutComponent(aboutIR) ==
  IF aboutIR.type # "about" THEN Err(<<"Invalid about component data">>)
  ELSE IF aboutIR.aboutType = "html"
  THEN Ok(renderAboutHtml(aboutIR.content, aboutIR.displayName))
  ELSE Ok(renderUnknownAbout(aboutIR.content, aboutIR.displayName))

renderComponent(componentIR) ==
  IF componentIR.type = "" THEN Err(<<"Invalid component data: type is required">>)
  ELSE LET type == componentIR.type
       IN CASE LowerCase(type) = "html" -> renderHtmlContent(componentIR)
            [] LowerCase(type) = "problem" -> renderProblemComponent(componentIR)
            [] LowerCase(type) = "video" -> renderVideoComponent(componentIR)
            [] LowerCase(type) = "about" -> renderAboutComponent(componentIR)
            [] LowerCase(type) = "unknown" ->
                 Ok(<<"##", " ", "Unsupported Component: ",
                      Or3(componentIR.displayName, componentIR.filename, ""), NL, NL>>
                    \o componentIR.content \o <<NL, NL, "---", NL>>)
            [] OTHER ->
                 Ok(<<"##", " ", "Unknown Component Type: ", type, NL, NL,
                      "*Component type \"", type, "\" is not supported for rendering*",
                      NL, NL, "---", NL>>)

\* ------------------------------------------------------- document assembler
\* !node.title
IsEmptyString(str) == str = <<>> \/ str = <<"">>

\* the catch block of the component loop
UnavailableLines(componentIndex, message) ==
  << <<"####", " ", "Learning Content ", ToString(componentIndex + 1), NL>>,
     <<"*Content temporarily unavailable: ">> \o message \o <<"*", NL, NL, "---", NL>> >>

\* a catch block that drops the error's message
ComponentLinesWithoutMessage(courseRoot, component, componentIndex) ==
  Catch(Try(parseComponent(courseRoot, component),
            LAMBDA componentIR :
              Try(renderComponent(componentIR),
                  LAMBDA componentMarkdown : Ok(<<componentMarkdown>>))),
        LAMBDA message : Ok(UnavailableLines(componentIndex, <<>>))).val

\* one iteration of node.components.forEach: the lines it pushes
ComponentLines(courseRoot, component, componentIndex) ==
  Catch(Try(parseComponent(courseRoot, component),
            LAMBDA componentIR :
              Try(renderComponent(componentIR),
                  LAMBDA componentMarkdown : Ok(<<componentMarkdown>>))),
        LAMBDA message : Ok(UnavailableLines(componentIndex, message))).val

RECURSIVE ComponentsLines(_, _, _)
ComponentsLines(courseRoot, components, componentIndex) ==
  IF componentIndex >= Len(components) THEN <<>>
  ELSE ComponentLines(courseRoot, components[componentIndex + 1], componentIndex)
       \o ComponentsLines(courseRoot, components, componentIndex + 1)

RECURSIVE transformNodeToMarkdown(_, _, _, _)
RECURSIVE ChildrenLines(_, _, _, _)

\* node[childrenKey].forEach(...) for level < 3: the first throw ends the loop
ChildrenLines(courseRoot, children, childIndex, level) ==
  IF childIndex >= Len(children) THEN Ok(<<>>)
  ELSE Try(transformNodeToMarkdown(children[childIndex + 1], childIndex + 1, courseRoot,
                                   level + 1),
           LAMBDA h : Try(ChildrenLines(courseRoot, children, childIndex + 1, level),
                          LAMBDA t : Ok(<<h>> \o t)))

\* heading lines at every level, the verticals included
HeadingLinesEveryLevel(node, level) ==
  <<(<<Hashes(level + 1), " ">> \o node.title \o <<NL>>)>>

\* the heading line of a chapter or a sequential; a vertical has none
HeadingLines(node, level) ==
  IF level <= 2 THEN <<(<<Hashes(level + 1), " ">> \o node.title \o <<NL>>)>> ELSE <<>>

\* the separator that ends a chapter
RuleLines(level) == IF level = 1 THEN <<(<<NL, "---", NL>>)>> ELSE <<>>

transformNodeToMarkdown(node, nodeNumber, courseRoot, level) ==
  IF IsEmptyString(node.title) \/ node.id = ""
  THEN Err(<<"Invalid node: title and id are required">>)
  ELSE Try(IF level < 3
           THEN ChildrenLines(courseRoot,
                              IF level = 1 THEN node.sequentials ELSE node.verticals,
                              0, level)
           ELSE Ok(ComponentsLines(courseRoot, node.components, 0)),
           LAMBDA body :
             Ok(Join(HeadingLines(node, level) \o body \o RuleLines(level), NL)))

transformCourseToMarkdown(courseTree, courseRoot) ==
  IF IsEmptyString(courseTree.title)
  THEN Err(<<"Invalid course tree: title and chapters are required">>)
  ELSE IF courseRoot.root = "" THEN Err(<<"Course root directory is required">>)
  ELSE Try(ChildrenLines(courseRoot, courseTree.chapters, 0, 0),
           LAMBDA chapters :
             Ok(Join(<< <<"---">>, <<"author: Course Converter">>,
                        <<"email: converter@example.com">>, <<"---">>, <<>>,
                        <<"#", " ">> \o courseTree.title \o <<NL>> >>
                     \o chapters
                     \o << <<NL, "---", NL>>, <<"*Course conversion completed*", NL>> >>,
                     NL)))

\* ------------------------------------------------- course directories (inputs)
ChapterIds == {"c1", "c2"}
SequentialIds == {"s1", "s2"}
VerticalIds == {"v1", "v2"}
ComponentIds == {"x1", "x2"}

\* a child element with a url_name; "" gives a child that has none
RefElem(u) == IF u = "" THEN Elem([display_name |-> "Draft"], NoKids)
              ELSE Elem([url_name |-> u], NoKids)

RefElems(us) == [k \in 1..Len(us) |-> RefElem(us[k])]

\* all sequences over S of length at most n
SeqsUpTo(S, n) == UNION {[1..k -> S] : k \in 0..n}

\* the first id of each level has a display_name, the second has none
DisplayNameOf(id) ==
  CASE id = "c1" -> "Introduction" [] id = "s1" -> "Lesson One"
    [] id = "v1" -> "Unit One" [] OTHER -> ""

FileStatuses == {"absent", "empty", "wrongroot", "ok", "upper", "unreadable"}

\* the file <tag>/<id>.xml in a given status, declaring the children us
StructFile(status, tag, id, childTag, us) ==
  LET attrs == IF DisplayNameOf(id) = "" THEN [other |-> "1"]
               ELSE [display_name |-> DisplayNameOf(id)]
  IN CASE status = "absent" -> Absent
       [] status = "unreadable" -> Unreadable
       [] status = "empty" -> File("", EmptyObject)
       [] status = "wrongroot" ->
            File("library", Elem(attrs, [t \in {childTag} |-> RefElems(us)]))
       [] status = "upper" ->
            File(UpperCase(tag), Elem(attrs, [t \in {UpperCase(childTag)} |-> RefElems(us)]))
       [] OTHER -> File(tag, Elem(attrs, [t \in {childTag} |-> RefElems(us)]))

\* the choices of one level: the list its parent declares and its files' statuses
FullLevel(Ids) ==
  {[refs |-> l, status |-> st] : l \in SeqsUpTo(Ids \cup {""}, MaxRefs),
                                 st \in [Ids -> FileStatuses]}

FewLevel(first, second) ==
  {[refs |-> <<first, second>>, status |-> (first :> "ok" @@ second :> "ok")],
   [refs |-> <<second, first>>, status |-> (first :> "ok" @@ second :> "absent")]}

\* the component children of a vertical file, by tag
VerticalBodies ==
  {[t \in {"html"} |-> RefElems(<<"x1">>)],
   [t \in {"html", "problem", "video"} |->
      IF t = "html" THEN RefElems(<<"x1", "x2">>) ELSE RefElems(<<"x1">>)],
   [t \in {"about"} |-> RefElems(<<"overview">>)],
   [t \in {"html", "discussion"} |-> RefElems(<<"x1">>)],
   [t \in {"problem"} |-> RefElems(<<"x2", "x1">>)],
   [t \in {"video", "HTML"} |-> RefElems(<<"x2">>)],
   [t \in {"html"} |-> RefElems(<<"", "x2">>)],
   NoKids}

FewBodies ==
  {[t \in {"html", "problem"} |-> RefElems(<<"x1">>)]}

Choice(correct, text) == Elem(("correct" :> correct @@ "#text" :> text), NoKids)
TextElem(text) == Elem([t \in {"#text"} |-> text], NoKids)

\* a checkbox problem with a hint
ProblemOne ==
  Elem([display_name |-> "Quiz"],
       [t \in {"multiplechoiceresponse"} |->
          <<Elem([t2 \in {"<p>"} |-> "Pick one"],
                 [t2 \in {"choicegroup", "hint"} |->
                    IF t2 = "choicegroup"
                    THEN <<Elem(NoAttrs, [t3 \in {"choice"} |->
                                  <<Choice("false", "A"), Choice("true", "B")>>])>>
                    ELSE <<TextElem("Think")>>])>>])

\* an unsupported problem whose hint has an attribute and a numeric text
ProblemNumericHint ==
  Elem([display_name |-> "Puzzle"],
       [t \in {"formularesponse", "hint"} |->
          IF t = "hint" THEN <<Elem(("class" :> "a" @@ "#text" :> "5"), NoKids)>>
          ELSE <<Elem([answer |-> "x"], NoKids)>>])

\* the component files of a course: complete, or with files missing or malformed
CompleteWorld ==
  [htmlXml |-> ("x1" :> File("html", Elem([display_name |-> "Page"], NoKids))
                @@ "x2" :> File("html", Elem([filename |-> "x2"], NoKids))),
   htmlBody |-> ("x1" :> [st |-> "ok", text |-> "<p>Hello</p>"]
                 @@ "x2" :> [st |-> "ok", text |-> ""]),
   problem |-> ("x1" :> File("problem", ProblemOne)
                @@ "x2" :> File("problem", ProblemNumericHint)),
   video |-> ("x1" :> File("video", Elem([youtube |-> "1.00:abc123"], NoKids))
              @@ "x2" :> File("video", Elem([display_name |-> "Clip"], NoKids))),
   about |-> [st |-> "ok",
              files |-> <<[name |-> "notes.txt", ext |-> ".txt", text |-> "n"],
                          [name |-> "overview.html", ext |-> ".html",
                           text |-> "<h2>Part</h2>"]>>]]

MissingWorld ==
  [htmlXml |-> ("x1" :> File("html", Elem([display_name |-> "Page"], NoKids))
                @@ "x2" :> Absent),
   htmlBody |-> ("x1" :> Absent @@ "x2" :> [st |-> "ok", text |-> "<p>Hello</p>"]),
   problem |-> ("x1" :> Absent @@ "x2" :> File("library", ProblemOne)),
   video |-> ("x1" :> File("VIDEO", Elem([youtube |-> "abc123"], NoKids))
              @@ "x2" :> Absent),
   about |-> Absent]

PartialWorld ==
  [htmlXml |-> ("x1" :> File("", EmptyObject)
                @@ "x2" :> File("html", Elem([display_name |-> "Two"], NoKids))),
   htmlBody |-> ("x1" :> [st |-> "ok", text |-> "<img src='/static/my pic.png'>"]
                 @@ "x2" :> [st |-> "ok", text |-> "<p>Hello</p>"]),
   problem |-> ("x1" :> File("problem", ProblemOne)
                @@ "x2" :> File("problem", ProblemNumericHint)),
   video |-> ("x1" :> File("video", Elem([url_name |-> "http://v/1"], NoKids))
              @@ "x2" :> Absent),
   about |-> [st |-> "ok",
              files |-> <<[name |-> "notes.txt", ext |-> ".txt", text |-> "n"]>>]]

ComponentWorlds == {CompleteWorld, MissingWorld, PartialWorld}

FewWorlds == {CompleteWorld}

\* course.xml and course/<url_name>.xml, declaring the chapters us
CourseFiles(us) ==
  LET kids == [t \in {"chapter"} |-> RefElems(us)]
      named == Elem([url_name |-> "run1", display_name |-> "Course One",
                     course |-> "CS101"], kids)
      pointer == Elem([url_name |-> "run1", course |-> "CS101", org |-> "Uni"], NoKids)
      detail == Elem([display_name |-> "Detailed Course"], kids)
  IN {[courseXml |-> File("course", named), course |-> ("run1" :> Absent)],
      [courseXml |-> File("course", pointer), course |-> ("run1" :> File("course", detail))],
      [courseXml |-> File("course", pointer), course |-> ("run1" :> Absent)],
      [courseXml |-> File("COURSE", Elem([other |-> "1"],
                                         [t \in {"CHAPTER"} |-> RefElems(us)])),
       course |-> ("run1" :> Absent)],
      [courseXml |-> File("library", named), course |-> ("run1" :> Absent)],
      [courseXml |-> File("", EmptyObject), course |-> ("run1" :> Absent)],
      [courseXml |-> Absent, course |-> ("run1" :> File("course", detail))],
      [courseXml |-> File("course", pointer), course |-> ("run1" :> Unreadable)],
      [courseXml |-> Unreadable, course |-> ("run1" :> Absent)]}

FewCourseFiles(us) ==
  {[courseXml |-> File("course", Elem([url_name |-> "run1", display_name |-> "Course One",
                                       course |-> "CS101"],
                                      [t \in {"chapter"} |-> RefElems(us)])),
    course |-> ("run1" :> Absent)]}

\* the course directory assembled from the choices of each level
CourseDir(cf, ch, sq, vt, body, world) ==
  [root |-> "/temp/course1",
   courseXml |-> cf.courseXml,
   course |-> cf.course,
   chapter |-> [id \in ChapterIds |->
                  StructFile(ch.status[id], "chapter", id, "sequential", sq.refs)],
   sequential |-> [id \in SequentialIds |->
                     StructFile(sq.status[id], "sequential", id, "vertical", vt.refs)],
   vertical |-> [id \in VerticalIds |->
                   IF vt.status[id] \in {"ok", "upper"}
                   THEN File(IF vt.status[id] = "ok" THEN "vertical" ELSE "VERTICAL",
                             Elem(IF DisplayNameOf(id) = "" THEN [other |-> "1"]
                                  ELSE [display_name |-> DisplayNameOf(id)], body))
                   ELSE StructFile(vt.status[id], "vertical", id, "html", <<"x1">>)],
   htmlXml |-> world.htmlXml, htmlBody |-> world.htmlBody,
   problem |-> world.problem, video |-> world.video, about |-> world.about]

\* the choice of a level that is left alone: both files present and declared
PlainLevel(first, second) ==
  {[refs |-> <<first, second>>, status |-> (first :> "ok" @@ second :> "ok")]}

(* The directories are taken in four parts.  Part 1, 2 and 3 vary the      *)
(* chapters, the sequentials and the verticals in full over a plain rest;  *)
(* part 4 varies the course files, the vertical bodies and the component   *)
(* files over a few shapes of the levels.                                  *)
Parts == 1..4

LevelOf(part, level, first, second) ==
  IF part = level THEN FullLevel({first, second})
  ELSE IF part = 4 THEN FewLevel(first, second)
  ELSE PlainLevel(first, second)

BodiesOf(part) == IF part = 4 THEN VerticalBodies ELSE FewBodies

WorldsOf(part) == IF part = 4 THEN ComponentWorlds ELSE FewWorlds

CourseFilesOf(part, us) == IF part = 4 THEN CourseFiles(us) ELSE FewCourseFiles(us)

\* ------------------------------------------- one course: build, then transform
InitTree ==
  /\ \E part \in Parts :
       \E ch \in LevelOf(part, 1, "c1", "c2"), sq \in LevelOf(part, 2, "s1", "s2"),
          vt \in LevelOf(part, 3, "v1", "v2"), body \in BodiesOf(part),
          world \in WorldsOf(part) :
         \E cf \in CourseFilesOf(part, ch.refs) :
           dir = CourseDir(cf, ch, sq, vt, body, world)
  /\ pc = "start"
  /\ tree = None /\ doc = None
  /\ arg = None /\ ret = None
  /\ courseIndex = 0 /\ conversionResults = <<>>
  /\ fs = None

BuildCourseTree ==
  /\ pc = "start"
  /\ tree' = buildCourseTree(dir)
  /\ pc' = IF tree'.ok THEN "built" ELSE "failed"
  /\ UNCHANGED <<dir, doc, arg, ret, courseIndex, conversionResults>>
  /\ UNCHANGED fs

\* a transformation that empties the chapters of the tree it has walked
TransformCourseConsuming ==
  /\ pc = "built"
  /\ doc' = transformCourseToMarkdown(tree.val, dir)
  /\ pc' = IF doc'.ok THEN "done" ELSE "failed"
  /\ tree' = [tree EXCEPT !.val.chapters = <<>>]
  /\ UNCHANGED <<dir, arg, ret, courseIndex, conversionResults, fs>>

TransformCourse ==
  /\ pc = "built"
  /\ doc' = transformCourseToMarkdown(tree.val, dir)
  /\ pc' = IF doc'.ok THEN "done" ELSE "failed"
  /\ UNCHANGED <<dir, tree, arg, ret, courseIndex, conversionResults>>
  /\ UNCHANGED fs

NextTree == BuildCourseTree \/ TransformCourse

SpecTree == InitTree /\ [][NextTree]_vars

\* --------------------------------- one vertical: transformNodeToMarkdown(.., 3)
\* the component refs that collectComponentRefs can hand to the assembler
VerticalRefs ==
  {[kind |-> "html", id |-> "x1"], [kind |-> "html", id |-> "x2"],
   [kind |-> "problem", id |-> "x1"], [kind |-> "problem", id |-> "x2"],
   [kind |-> "video", id |-> "x1"], [kind |-> "video", id |-> "x2"],
   [kind |-> "about", id |-> "overview"]}

\* a course directory whose structure is plain, with the given component files
PlainDir(world) ==
  CourseDir(CHOOSE cf \in FewCourseFiles(<<"c1", "c2">>) : TRUE,
            CHOOSE ch \in PlainLevel("c1", "c2") : TRUE,
            CHOOSE sq \in PlainLevel("s1", "s2") : TRUE,
            CHOOSE vt \in PlainLevel("v1", "v2") : TRUE,
            CHOOSE body \in FewBodies : TRUE, world)

InitVertical ==
  /\ \E world \in ComponentWorlds : dir = PlainDir(world)
  /\ \E components \in SeqsUpTo(VerticalRefs, MaxRefs + 1) :
       arg = [id |-> "v1", title |-> <<"Unit One">>, components |-> components]
  /\ pc = "start"
  /\ tree = None /\ doc = None /\ ret = None
  /\ courseIndex = 0 /\ conversionResults = <<>>
  /\ fs = None

TransformVertical ==
  /\ pc = "start"
  /\ ret' = transformNodeToMarkdown(arg, 1, dir, 3)
  /\ pc' = IF ret'.ok THEN "done" ELSE "failed"
  /\ UNCHANGED <<dir, tree, doc, arg, courseIndex, conversionResults>>
  /\ UNCHANGED fs

NextVertical == TransformVertical

SpecVertical == InitVertical /\ [][NextVertical]_vars

\* ------------------------- one level: parseChapters, parseSequentials, parseVerticals
\* both files of a level declared, in every combination of statuses
StatusLevel(first, second) ==
  {[refs |-> <<first, second>>, status |-> st] :
     st \in [{first, second} -> FileStatuses]}

ParseLevelOf(part, level, first, second) ==
  IF part = level THEN StatusLevel(first, second) ELSE PlainLevel(first, second)

LevelIds(level) ==
  CASE level = "chapter" -> ChapterIds
    [] level = "sequential" -> SequentialIds
    [] OTHER -> VerticalIds

InitParse ==
  /\ \E part \in 1..3 :
       \E ch \in ParseLevelOf(part, 1, "c1", "c2"), sq \in ParseLevelOf(part, 2, "s1", "s2"),
          vt \in ParseLevelOf(part, 3, "v1", "v2"), body \in FewBodies :
         \E cf \in FewCourseFiles(ch.refs) :
           dir = CourseDir(cf, ch, sq, vt, body, CompleteWorld)
  /\ \E level \in {"chapter", "sequential", "vertical"} :
       \E refs \in SeqsUpTo(LevelIds(level), MaxRefs) :
         arg = [level |-> level, refs |-> refs]
  /\ pc = "start"
  /\ tree = None /\ doc = None /\ ret = None
  /\ courseIndex = 0 /\ conversionResults = <<>>
  /\ fs = None

ParseChapters ==
  /\ pc = "start" /\ arg.level = "chapter"
  /\ ret' = parseChapters(dir, arg.refs)
  /\ pc' = IF ret'.ok THEN "done" ELSE "failed"
  /\ UNCHANGED <<dir, tree, doc, arg, courseIndex, conversionResults>>
  /\ UNCHANGED fs

ParseSequentials ==
  /\ pc = "start" /\ arg.level = "sequential"
  /\ ret' = parseSequentials(dir, arg.refs)
  /\ pc' = IF ret'.ok THEN "done" ELSE "failed"
  /\ UNCHANGED <<dir, tree, doc, arg, courseIndex, conversionResults>>
  /\ UNCHANGED fs

ParseVerticals ==
  /\ pc = "start" /\ arg.level = "vertical"
  /\ ret' = parseVerticals(dir, arg.refs)
  /\ pc' = IF ret'.ok THEN "done" ELSE "failed"
  /\ UNCHANGED <<dir, tree, doc, arg, courseIndex, conversionResults>>
  /\ UNCHANGED fs

NextParse == ParseChapters \/ ParseSequentials \/ ParseVerticals

SpecParse == InitParse /\ [][NextParse]_vars

\* ------------------------------- one component: parseComponent, renderComponent
ComponentKinds ==
  {"html", "HTML", "Html", "problem", "PROBLEM", "video", "about", "ABOUT",
   "discussion", "Discussion", "poll", "unknown", ""}

InitComponent ==
  /\ \E world \in ComponentWorlds : dir = PlainDir(world)
  /\ \E kind \in ComponentKinds, id \in ComponentIds \cup {"overview", ""} :
       arg = [kind |-> kind, id |-> id]
  /\ pc = "start"
  /\ tree = None /\ doc = None /\ ret = None
  /\ courseIndex = 0 /\ conversionResults = <<>>
  /\ fs = None

ParseComponent ==
  /\ pc = "start"
  /\ ret' = parseComponent(dir, arg)
  /\ pc' = IF ret'.ok THEN "parsed" ELSE "failed"
  /\ UNCHANGED <<dir, tree, doc, arg, courseIndex, conversionResults>>
  /\ UNCHANGED fs

RenderComponent ==
  /\ pc = "parsed"
  /\ doc' = renderComponent(ret.val)
  /\ pc' = IF doc'.ok THEN "done" ELSE "failed"
  /\ UNCHANGED <<dir, tree, arg, ret, courseIndex, conversionResults>>
  /\ UNCHANGED fs

NextComponent == ParseComponent \/ RenderComponent

SpecComponent == InitComponent /\ [][NextComponent]_vars

\* ------------------------------------------ one vertical node: collectComponentRefs
\* the child elements of a vertical: with one of the id attributes, with several,
\* with other attributes only, and with no attribute at all
RefItems ==
  {Elem([url_name |-> "x1"], NoKids),
   Elem([url |-> "http://u/1"], NoKids),
   Elem([filename |-> "f1"], NoKids),
   Elem([url |-> "http://u/2", filename |-> "f2"], NoKids),
   Elem([display_name |-> "Draft"], NoKids),
   EmptyObject}

\* a vertical node holding children of kind in both tag forms, and a video
VerticalNode(kind, lower, upper, videos) ==
  Elem([display_name |-> "Unit One"],
       [t \in {kind, UpperCase(kind), "video"} |->
          IF t = kind THEN lower ELSE IF t = "video" THEN videos ELSE upper])

InitRefs ==
  /\ \E kind \in {"html", "problem", "about"} :
       \E lower \in SeqsUpTo(RefItems, MaxRefs),
          upper \in SeqsUpTo({Elem([url_name |-> "x2"], NoKids)}, 1),
          videos \in SeqsUpTo({Elem([url_name |-> "x1"], NoKids)}, 1) :
         arg = VerticalNode(kind, lower, upper, videos)
  /\ dir = None /\ pc = "start"
  /\ tree = None /\ doc = None /\ ret = None
  /\ courseIndex = 0 /\ conversionResults = <<>>
  /\ fs = None

CollectComponentRefs ==
  /\ pc = "start"
  /\ ret' = collectComponentRefs(arg)
  /\ pc' = "done"
  /\ UNCHANGED <<dir, tree, doc, arg, courseIndex, conversionResults>>
  /\ UNCHANGED fs

NextRefs == CollectComponentRefs

SpecRefs == InitRefs /\ [][NextRefs]_vars

\* ------------------------------------------------------ the batch: processCourses
MaxArchives == 3

\* path.join(process.cwd(), 'temp')
TEMP_ROOT == "/cwd/temp"

(* An archive: its base name, whether tar can extract it, the directory it *)
(* holds, and whether the output directory can be written.                 *)
Archive(fileName, tar, content, disk) ==
  [fileName |-> fileName, tar |-> tar, content |-> content, disk |-> disk]

NoCourseXmlDir == [PlainDir(CompleteWorld) EXCEPT !.courseXml = Absent]

UnreadableCourseXmlDir == [PlainDir(CompleteWorld) EXCEPT !.courseXml = Unreadable]

UnreadableChapterDir == [PlainDir(MissingWorld) EXCEPT !.chapter["c2"] = Unreadable]

MissingChapterDir == [PlainDir(PartialWorld) EXCEPT !.chapter["c1"] = Absent]

Archives ==
  {Archive("good", "ok", PlainDir(CompleteWorld), "ok"),
   Archive("gaps", "ok", MissingChapterDir, "ok"),
   Archive("corrupt", "corrupt", NoCourseXmlDir, "ok"),
   Archive("empty", "ok", NoCourseXmlDir, "ok"),
   Archive("badxml", "ok", UnreadableCourseXmlDir, "ok"),
   Archive("badchapter", "ok", UnreadableChapterDir, "ok"),
   Archive("nospace", "ok", PlainDir(CompleteWorld), "full"),
   Archive("good ", "ok", PlainDir(PartialWorld), "ok")}

\* tar.extract into TEMP_ROOT/<name>; a tar error is rethrown with a prefix
extractCourse(archive) ==
  IF archive.tar = "ok"
  THEN Ok([archive.content EXCEPT !.root = TEMP_ROOT \o "/" \o archive.fileName])
  ELSE Err(<<"Failed to extract course: ", "TAR_BAD_ARCHIVE: Unrecognized archive format">>)

\* the directories below TEMP_ROOT after extractCourse: tempDir is made afresh,
\* and removed again when tar fails
ExtractedTemp(archive, temp) ==
  IF archive.tar = "ok" THEN temp \cup {archive.fileName} ELSE temp \ {archive.fileName}

resolveCourseRoot(extractedDir) ==
  IF extractedDir.courseXml.st # "absent" THEN Ok(extractedDir)
  ELSE Err(<<"course.xml not found under ", extractedDir.root>>)

\* mkdirSync, writeFileSync and processMediaFiles; any throw is rethrown with a prefix
generateCourseOutput(fileName, markdownContent, courseRoot, disk) ==
  IF disk = "ok"
  THEN Ok([success |-> TRUE, outputPath |-> <<"/cwd/output", "/", Trim(fileName)>>,
           mediaCount |-> 0])
  ELSE Err(<<"Failed to generate output for ", fileName, ": ",
             "ENOSPC: no space left on device">>)

\* the course directories below the output directory after generateCourseOutput:
\* course.md of <output>/<cleanFileName> is the one of this course
WrittenOutput(fileName, output) ==
  [name \in DOMAIN output \cup {Trim(fileName)} |->
     IF name = Trim(fileName) THEN fileName ELSE output[name]]

\* the temp root after prepareTempRoot and an output directory without courses
EmptyFs == [temp |-> {}, output |-> [name \in {} |-> ""]]

\* the result that the catch block of the loop pushes
FailureResult(fileName, message) ==
  [fileName |-> fileName, success |-> FALSE, error |-> message,
   outputPath |-> <<>>, mediaCount |-> 0]

\* { fileName, ...outputResult }
SuccessResult(fileName, outputResult) ==
  [fileName |-> fileName, success |-> outputResult.success, error |-> <<>>,
   outputPath |-> outputResult.outputPath, mediaCount |-> outputResult.mediaCount]

\* conversionResults.filter(r => r.success).length
SuccessCount(results) == Cardinality({k \in 1..Len(results) : results[k].success})

InitBatch ==
  /\ arg \in SeqsUpTo(Archives, MaxArchives)
  /\ pc = "loop"
  /\ courseIndex = 0 /\ conversionResults = <<>>
  /\ dir = None /\ tree = None /\ doc = None /\ ret = None
  /\ fs = EmptyFs

\* a catch block that records the failure and gives up the remaining archives
CatchFailureStops(message) ==
  /\ conversionResults' =
       Append(conversionResults, FailureResult(arg[courseIndex + 1].fileName, message))
  /\ courseIndex' = Len(arg)
  /\ pc' = "loop"

\* a catch block that goes on without recording the failure
CatchFailureUnrecorded(message) ==
  /\ UNCHANGED conversionResults
  /\ courseIndex' = courseIndex + 1
  /\ pc' = "loop"

\* the catch block: one failed result, then the next iteration
CatchFailure(message) ==
  /\ conversionResults' =
       Append(conversionResults, FailureResult(arg[courseIndex + 1].fileName, message))
  /\ courseIndex' = courseIndex + 1
  /\ pc' = "loop"

\* i < tarGzFiles.length: the body starts with the next archive
NextCourse ==
  /\ pc = "loop" /\ courseIndex < Len(arg)
  /\ pc' = "extract"
  /\ dir' = None /\ tree' = None /\ doc' = None
  /\ UNCHANGED <<arg, ret, courseIndex, conversionResults>>
  /\ UNCHANGED fs

ExtractCourse ==
  /\ pc = "extract"
  /\ LET extractedDir == extractCourse(arg[courseIndex + 1])
     IN IF extractedDir.ok
        THEN /\ dir' = extractedDir.val
             /\ pc' = "resolve"
             /\ UNCHANGED <<courseIndex, conversionResults>>
        ELSE /\ CatchFailure(extractedDir.msg)
             /\ UNCHANGED dir
  /\ fs' = [fs EXCEPT !.temp = ExtractedTemp(arg[courseIndex + 1], fs.temp)]
  /\ UNCHANGED <<tree, doc, arg, ret>>

ResolveCourseRoot ==
  /\ pc = "resolve"
  /\ LET courseRoot == resolveCourseRoot(dir)
     IN IF courseRoot.ok
        THEN /\ pc' = "build"
             /\ UNCHANGED <<courseIndex, conversionResults>>
        ELSE CatchFailure(courseRoot.msg)
  /\ UNCHANGED <<dir, tree, doc, arg, ret>>
  /\ UNCHANGED fs

BuildTree ==
  /\ pc = "build"
  /\ LET courseTree == buildCourseTree(dir)
     IN /\ tree' = courseTree
        /\ IF courseTree.ok
           THEN /\ pc' = "transform"
                /\ UNCHANGED <<courseIndex, conversionResults>>
           ELSE CatchFailure(courseTree.msg)
  /\ UNCHANGED <<dir, doc, arg, ret>>
  /\ UNCHANGED fs

TransformTree ==
  /\ pc = "transform"
  /\ LET markdownContent == transformCourseToMarkdown(tree.val, dir)
     IN /\ doc' = markdownContent
        /\ IF markdownContent.ok
           THEN /\ pc' = "output"
                /\ UNCHANGED <<courseIndex, conversionResults>>
           ELSE CatchFailure(markdownContent.msg)
  /\ UNCHANGED <<dir, tree, arg, ret>>
  /\ UNCHANGED fs

GenerateCourseOutput ==
  /\ pc = "output"
  /\ LET outputResult == generateCourseOutput(arg[courseIndex + 1].fileName, doc.val, dir,
                                              arg[courseIndex + 1].disk)
     IN IF outputResult.ok
        THEN /\ conversionResults' =
                  Append(conversionResults,
                         SuccessResult(arg[courseIndex + 1].fileName, outputResult.val))
             /\ courseIndex' = courseIndex + 1
             /\ pc' = "loop"
             /\ fs' = [fs EXCEPT !.output =
                                   WrittenOutput(arg[courseIndex + 1].fileName, fs.output)]
        ELSE /\ CatchFailure(outputResult.msg)
             /\ UNCHANGED fs
  /\ UNCHANGED <<dir, tree, doc, arg, ret>>

\* the loop is over: the counts are computed and the promise resolves
DisplayResults ==
  /\ pc = "loop" /\ courseIndex >= Len(arg)
  /\ ret' = Ok([successCount |-> SuccessCount(conversionResults),
                failCount |-> Len(conversionResults) - SuccessCount(conversionResults)])
  /\ pc' = "returned"
  /\ UNCHANGED <<dir, tree, doc, arg, courseIndex, conversionResults>>
  /\ UNCHANGED fs

NextBatch ==
  \/ NextCourse \/ ExtractCourse \/ ResolveCourseRoot \/ BuildTree
  \/ TransformTree \/ GenerateCourseOutput \/ DisplayResults

SpecBatch == InitBatch /\ [][NextBatch]_vars

\* ------------------------- one problem: parseProblemComponent, then the renderer
ResponseTags ==
  <<"multiplechoiceresponse", "choiceresponse", "optionresponse", "stringresponse",
    "numericalresponse", "formularesponse", "coderesponse">>

\* <problem display_name="Quiz"> holding the given children
ProblemElem(kids) == Elem([display_name |-> "Quiz"], kids)

\* the choice elements of a group: with a correct attribute, or text only
ChoiceItems == {Choice("true", "A"), Choice("false", "B"), TextElem("C")}

\* a response element holding one group of choices
ChoiceResponse(prompt, groupTag, choices) ==
  Elem(IF prompt = "" THEN NoAttrs ELSE [t \in {"<p>"} |-> prompt],
       [t \in {groupTag} |-> <<Elem(NoAttrs, [t2 \in {"choice"} |-> choices])>>])

\* the option elements of an optioninput; the last one has a numeric text
OptionItems ==
  {TextElem("Barometer"), Elem(("correct" :> "True" @@ "#text" :> "Anemometer"), NoKids),
   Elem(("correct" :> "false" @@ "#text" :> "Hygrometer"), NoKids), TextElem("5")}

\* an optionresponse: its optioninput holds the options, or is left out
OptionResponse(prompt, inputs, options) ==
  Elem(IF prompt = "" THEN NoAttrs ELSE [t \in {"<label>"} |-> prompt],
       [t \in {"optioninput"} |->
          IF inputs = 0 THEN <<>>
          ELSE <<Elem(NoAttrs, [t2 \in {"option"} |-> options])>>])

\* the additional_answer elements: with an answer attribute, or text only
AnswerItems ==
  {Elem([answer |-> "fifty-two"], NoKids), Elem([answer |-> "   "], NoKids),
   TextElem("LII"), TextElem("5")}

StringResponse(attrs, additional) ==
  Elem(attrs, [t \in {"additional_answer"} |-> additional])

\* hint, demotedhint and description elements: text only, padded, blank, numeric,
\* and with an attribute beside the text
HintItems ==
  {TextElem("Think"), TextElem(" padded "), TextElem("   "), TextElem("5"),
   Elem(("class" :> "a" @@ "#text" :> "Look"), NoKids),
   Elem(("class" :> "a" @@ "#text" :> "5"), NoKids)}

HintKids(hints, demoted, described) ==
  [t \in {"hint", "demotedhint", "description"} |->
     IF t = "hint" THEN hints ELSE IF t = "demotedhint" THEN demoted ELSE described]

\* the element with the children of more added to it
WithKids(e, more) ==
  Elem(e.attrs, [t \in DOMAIN e.kids \cup DOMAIN more |->
                   IF t \in DOMAIN more THEN more[t] ELSE e.kids[t]])

\* a response element of the given tag that has an attribute, or a bare one
PlainResponse(tag, bare) ==
  IF bare THEN EmptyObject
  ELSE IF tag \in {"multiplechoiceresponse", "choiceresponse"}
  THEN ChoiceResponse("Pick", IF tag = "choiceresponse" THEN "checkboxgroup"
                              ELSE "choicegroup",
                      <<Choice("true", "A"), Choice("false", "B")>>)
  ELSE IF tag = "optionresponse"
  THEN OptionResponse("Pick", 1, <<TextElem("Barometer")>>)
  ELSE Elem([answer |-> "52"], NoKids)

\* the element with the given p and label children (text only; "" for none)
WithPrompt(e, p, label) ==
  Elem([t \in (DOMAIN e.attrs \ {"<p>", "<label>"})
                \cup (IF p = "" THEN {} ELSE {"<p>"})
                \cup (IF label = "" THEN {} ELSE {"<label>"}) |->
          IF t = "<p>" THEN p ELSE IF t = "<label>" THEN label ELSE e.attrs[t]],
       e.kids)

\* a response element with a prompt, its body and hints; a choiceresponse holds
\* the given group
PromptedResponse(tag, groupTag, p, label, hints) ==
  WithKids(WithPrompt(IF tag = "choiceresponse"
                      THEN ChoiceResponse("", groupTag,
                                          <<Choice("true", "A"), Choice("false", "B")>>)
                      ELSE PlainResponse(tag, FALSE), p, label),
           HintKids(hints, <<>>, <<>>))

\* the course directory whose problem/x1.xml holds the given problem element
ProblemDir(problem) ==
  [PlainDir(CompleteWorld) EXCEPT !.problem["x1"] = File("problem", problem)]

ProblemRefs ==
  {[kind |-> "problem", id |-> "x1"],
   [kind |-> "problem", id |-> "x1", displayName |-> "multiplechoiceresponse"]}

InitProblem ==
  /\ \/ \E prompt \in {"", "Pick"},
           tags \in {<<"multiplechoiceresponse", "choicegroup">>,
                     <<"choiceresponse", "checkboxgroup">>,
                     <<"choiceresponse", "choicegroup">>},
           choices \in SeqsUpTo(ChoiceItems, MaxRefs + 1) :
          dir = ProblemDir(ProblemElem(
                  [t \in {tags[1]} |-> <<ChoiceResponse(prompt, tags[2], choices)>>]))
     \/ \E prompt \in {"", "Pick"}, inputs \in {0, 1},
           options \in SeqsUpTo(OptionItems, MaxRefs + 1) :
          /\ inputs = 0 => options = <<>>
          /\ dir = ProblemDir(ProblemElem(
                     [t \in {"optionresponse"} |->
                        <<OptionResponse(prompt, inputs, options)>>]))
     \/ \E attrs \in {NoAttrs, [type |-> "ci"], [answer |-> "52"],
                      [answer |-> " padded "], [answer |-> "   "]},
           additional \in SeqsUpTo(AnswerItems, MaxRefs) :
          dir = ProblemDir(ProblemElem(
                  [t \in {"stringresponse"} |-> <<StringResponse(attrs, additional)>>]))
     \/ \E first \in 1..Len(ResponseTags), second \in 1..Len(ResponseTags),
           firstBare \in BOOLEAN, secondBare \in BOOLEAN :
          dir = ProblemDir(ProblemElem(
                  [t \in {ResponseTags[first], ResponseTags[second]} |->
                     <<PlainResponse(t, IF t = ResponseTags[first] THEN firstBare
                                        ELSE secondBare)>>]))
     \/ \E tag \in {"multiplechoiceresponse", "choiceresponse", "optionresponse",
                    "stringresponse", "numericalresponse"},
           hints \in SeqsUpTo(HintItems, MaxRefs),
           demoted \in SeqsUpTo({TextElem("Demoted")}, 1),
           described \in SeqsUpTo({TextElem("Described")}, 1) :
          dir = ProblemDir(ProblemElem(
                  [t \in {tag} |->
                     <<WithKids(PlainResponse(tag, FALSE),
                                HintKids(hints, demoted, described))>>]))
     \/ \E tag \in {"formularesponse", "coderesponse", "customresponse"},
           prompt \in {"", "Solve"},
           hints \in SeqsUpTo(HintItems, MaxRefs),
           described \in SeqsUpTo({TextElem("Described")}, 1) :
          dir = ProblemDir(
                  Elem(IF prompt = "" THEN [display_name |-> "Quiz"]
                       ELSE ("display_name" :> "Quiz" @@ "<p>" :> prompt),
                       WithKids(Elem(NoAttrs, [t \in {tag} |-> <<PlainResponse(tag, FALSE)>>]),
                                HintKids(hints, <<>>, described)).kids))
     \/ \E tags \in {<<"multiplechoiceresponse", "choicegroup">>,
                     <<"choiceresponse", "checkboxgroup">>,
                     <<"choiceresponse", "choicegroup">>,
                     <<"optionresponse", "">>, <<"stringresponse", "">>,
                     <<"numericalresponse", "">>},
           p \in {"", "Pick"}, label \in {"", "Which?"},
           hints \in SeqsUpTo({TextElem("Think")}, 1) :
          dir = ProblemDir(ProblemElem(
                  [t \in {tags[1]} |->
                     <<PromptedResponse(tags[1], tags[2], p, label, hints)>>]))
     \/ \E p \in {"", "Pick"}, label \in {"", "Which?"},
           hints \in SeqsUpTo({TextElem("Think")}, 1),
           more \in SeqsUpTo({TextElem("Twice")}, 1) :
          dir = ProblemDir(ProblemElem(
                  [t \in {"multiplechoiceresponse", "choiceresponse"} |->
                     IF t = "multiplechoiceresponse"
                     THEN <<PromptedResponse(t, "choicegroup", p, "", hints)>>
                     ELSE <<PromptedResponse(t, "checkboxgroup", "", label, more)>>]))
     \/ \E choices \in SeqsUpTo(ChoiceItems, MaxRefs),
           checkboxes \in SeqsUpTo(ChoiceItems, MaxRefs) :
          dir = ProblemDir(ProblemElem(
                  [t \in {"multiplechoiceresponse", "choiceresponse"} |->
                     IF t = "multiplechoiceresponse"
                     THEN <<ChoiceResponse("Pick", "choicegroup", choices)>>
                     ELSE <<ChoiceResponse("", "checkboxgroup", checkboxes)>>]))
     \/ \E tag \in {"formularesponse", "coderesponse"},
           p \in {"", "Solve"}, label \in {"", "Which?"},
           hints \in SeqsUpTo({TextElem("Think")}, 1) :
          dir = ProblemDir(
                  WithPrompt(WithKids(ProblemElem([t \in {tag} |->
                                                     <<PlainResponse(tag, FALSE)>>]),
                                      HintKids(hints, <<>>, <<>>)), p, label))
  /\ arg \in ProblemRefs
  /\ pc = "start"
  /\ tree = None /\ doc = None /\ ret = None
  /\ courseIndex = 0 /\ conversionResults = <<>>
  /\ fs = None

\* parseComponent on the problem reference
ParseProblem ==
  /\ pc = "start"
  /\ ret' = parseComponent(dir, arg)
  /\ pc' = IF ret'.ok THEN "parsed" ELSE "failed"
  /\ UNCHANGED <<dir, tree, doc, arg, courseIndex, conversionResults>>
  /\ UNCHANGED fs

\* the element whose hints a renderer extracts: the response element of the
\* problem's type, or the problem itself for a type that has no renderer
HintRoot(problemIR) ==
  CASE problemIR.problemType = "multiple_choice" ->
         IF Truthy(Prop(problemIR.content, "multiplechoiceresponse"))
         THEN AsObject(Prop(problemIR.content, "multiplechoiceresponse"))
         ELSE AsObject(Prop(problemIR.content, "choiceresponse"))
    [] problemIR.problemType = "choice" -> AsObject(Prop(problemIR.content, "choiceresponse"))
    [] problemIR.problemType = "selection" ->
         AsObject(Prop(problemIR.content, "optionresponse"))
    [] problemIR.problemType = "text_input" ->
         AsObject(Prop(problemIR.content, "stringresponse"))
    [] problemIR.problemType = "number_input" ->
         AsObject(Prop(problemIR.content, "numericalresponse"))
    [] OTHER -> problemIR.content

\* extractHints on that element (tree holds the element, doc the result)
ExtractHints ==
  /\ pc = "parsed"
  /\ tree' = HintRoot(ret.val)
  /\ doc' = extractHints(tree')
  /\ pc' = "hints"
  /\ UNCHANGED <<dir, arg, ret, courseIndex, conversionResults>>
  /\ UNCHANGED fs

\* renderComponent on the problem IR
RenderProblem ==
  /\ pc \in {"parsed", "hints"}
  /\ doc' = renderComponent(ret.val)
  /\ pc' = IF doc'.ok THEN "done" ELSE "failed"
  /\ UNCHANGED <<dir, tree, arg, ret, courseIndex, conversionResults>>
  /\ UNCHANGED fs

NextProblem == ParseProblem \/ ExtractHints \/ RenderProblem

SpecProblem == InitProblem /\ [][NextProblem]_vars

\* ----------------------------- one video: parseVideoComponent, then the renderer
\* an attribute that the element does not have
NoValue == "<absent>"

YoutubeValues == {NoValue, "", "abc123", "1.00:abc123", "1.00:", "1.00:abc123,1.50:def456"}

UrlNameValues == {NoValue, "", "http://v/1"}

\* <video youtube=".." url_name=".." display_name=".."/> with the attributes given
VideoElem(youtube, urlName, displayName) ==
  Elem([a \in {n \in {"youtube", "url_name", "display_name"} :
                 (CASE n = "youtube" -> youtube [] n = "url_name" -> urlName
                    [] OTHER -> displayName) # NoValue} |->
          CASE a = "youtube" -> youtube [] a = "url_name" -> urlName
            [] OTHER -> displayName],
       NoKids)

\* the course directory whose video/x1.xml holds the given video element
VideoDir(video) ==
  [PlainDir(CompleteWorld) EXCEPT !.video["x1"] = File("video", video)]

InitVideo ==
  /\ \E youtube \in YoutubeValues, urlName \in UrlNameValues,
        displayName \in {NoValue, "Clip"} :
       dir = VideoDir(VideoElem(youtube, urlName, displayName))
  /\ arg \in {[kind |-> "video", id |-> "x1"],
              [kind |-> "video", id |-> "x1", displayName |-> "youtube"]}
  /\ pc = "start"
  /\ tree = None /\ doc = None /\ ret = None
  /\ courseIndex = 0 /\ conversionResults = <<>>
  /\ fs = None

\* parseComponent on the video reference
ParseVideo ==
  /\ pc = "start"
  /\ ret' = parseComponent(dir, arg)
  /\ pc' = IF ret'.ok THEN "parsed" ELSE "failed"
  /\ UNCHANGED <<dir, tree, doc, arg, courseIndex, conversionResults>>
  /\ UNCHANGED fs

\* renderComponent on the video IR
RenderVideo ==
  /\ pc = "parsed"
  /\ doc' = renderComponent(ret.val)
  /\ pc' = IF doc'.ok THEN "done" ELSE "render failed"
  /\ UNCHANGED <<dir, tree, arg, ret, courseIndex, conversionResults>>
  /\ UNCHANGED fs

NextVideo == ParseVideo \/ RenderVideo

SpecVideo == InitVideo /\ [][NextVideo]_vars

\* ------------------------------------ media: processMediaFiles, rewriteMediaPaths
(* A file name or path is the sequence of its characters; an extension such *)
(* as ".png" is one element, and only the last one.                         *)
\* the characters that /[^A-Za-z0-9._-]/ matches, among those the model uses
UnsafeChars == {" ", "/", ","}

\* str without its leading characters of the class
RECURSIVE DropRun(_, _)
DropRun(str, class) ==
  IF str # <<>> /\ Head(str) \in class THEN DropRun(Tail(str), class) ELSE str

\* str.replace(/<class>+/g, '_'): every run of characters of the class becomes '_'
RECURSIVE ReplaceRuns(_, _)
ReplaceRuns(str, class) ==
  IF str = <<>> THEN <<>>
  ELSE IF Head(str) \in class THEN <<"_">> \o ReplaceRuns(DropRun(str, class), class)
  ELSE <<Head(str)>> \o ReplaceRuns(Tail(str), class)

\* the sequence in reverse order
RECURSIVE Reverse(_)
Reverse(str) == IF str = <<>> THEN <<>> ELSE Reverse(Tail(str)) \o <<Head(str)>>

\* str.replace(/^_+|_+$/g, '')
StripUnderscores(str) ==
  Reverse(DropRun(Reverse(DropRun(str, {"_"})), {"_"}))

\* sanitizeFileName without its last replace
sanitizeFileNameUnstripped(fileName) ==
  ReplaceRuns(ReplaceRuns(fileName, UnsafeChars), {"_"})

sanitizeFileName(fileName) ==
  StripUnderscores(ReplaceRuns(ReplaceRuns(fileName, UnsafeChars), {"_"}))

\* the callback of rewriteMediaPaths: the reference that replaces
\* src="/static/<p1>" or href="/static/<p1>"
MediaReference(p1) == <<"./media/">> \o sanitizeFileName(p1)

\* the last component of a path: what readdirSync returned for the file
RECURSIVE BaseName(_)
BaseName(path) ==
  IF \E k \in 1..Len(path) : path[k] = "/" THEN BaseName(Tail(path)) ELSE path

\* path.extname(item).toLowerCase()
ExtName(item) == IF item = <<>> THEN "" ELSE LowerCase(item[Len(item)])

mediaExtensions ==
  {".jpg", ".jpeg", ".png", ".gif", ".bmp", ".svg", ".mp4", ".avi", ".mov", ".wmv", ".webm"}

\* the files below static/ in scan order, those with a media extension
findMediaFiles(courseRoot) ==
  IF courseRoot.static.st = "absent" THEN Ok(<<>>)
  ELSE IF courseRoot.static.st = "unreadable"
  THEN Err(<<"EACCES: permission denied, scandir">>)
  ELSE Ok([k \in 1..Len(SelectSeq(courseRoot.static.files,
                                  LAMBDA f : ExtName(BaseName(f.relativePath))
                                               \in mediaExtensions)) |->
             [fullPath |-> <<courseRoot.root, "/static/">>
                           \o SelectSeq(courseRoot.static.files,
                                        LAMBDA f : ExtName(BaseName(f.relativePath))
                                                     \in mediaExtensions)[k].relativePath,
              relativePath |-> SelectSeq(courseRoot.static.files,
                                         LAMBDA f : ExtName(BaseName(f.relativePath))
                                                      \in mediaExtensions)[k].relativePath,
              fileName |-> BaseName(SelectSeq(courseRoot.static.files,
                                              LAMBDA f : ExtName(BaseName(f.relativePath))
                                                           \in mediaExtensions)[k].relativePath),
              readable |-> SelectSeq(courseRoot.static.files,
                                     LAMBDA f : ExtName(BaseName(f.relativePath))
                                                  \in mediaExtensions)[k].readable]])

\* copyFileSync into targetDir/<sanitized name>: the directory afterwards, as a
\* map from file name to the source it was copied from; an existing file of the
\* name is overwritten
copyMediaFile(mediaFile, targetDir) ==
  IF ~mediaFile.readable THEN Err(<<"EACCES: permission denied, copyfile">>)
  ELSE Ok([name \in DOMAIN targetDir \cup {sanitizeFileName(mediaFile.fileName)} |->
             IF name = sanitizeFileName(mediaFile.fileName) THEN mediaFile.relativePath
             ELSE targetDir[name]])

\* the loop over mediaFiles: a failed copy is skipped
RECURSIVE CopyAll(_, _)
CopyAll(mediaFiles, out) ==
  IF mediaFiles = <<>> THEN out
  ELSE Bind(copyMediaFile(Head(mediaFiles), out.media),
            LAMBDA copied :
              CopyAll(Tail(mediaFiles),
                      IF copied.ok
                      THEN [copiedCount |-> out.copiedCount + 1, media |-> copied.val,
                            copies |-> Append(out.copies,
                                              [source |-> Head(mediaFiles).relativePath,
                                               name |-> sanitizeFileName(
                                                          Head(mediaFiles).fileName)])]
                      ELSE out))

\* the copied count, with the media directory and the copies made on the way
processMediaFiles(courseRoot, mediaDir) ==
  Catch(Try(findMediaFiles(courseRoot),
            LAMBDA mediaFiles :
              Ok(CopyAll(mediaFiles, [copiedCount |-> 0, media |-> mediaDir,
                                      copies |-> <<>>]))),
        LAMBDA message : Err(<<"Failed to process media files: ">> \o message))

\* the relative paths of files below static/
MediaPaths ==
  {<<"a", ".png">>, <<"a", " ", "b", ".png">>, <<"a", "_", "b", ".png">>,
   <<"_", "a", ".PNG">>, <<"a", " ", ",", "b", ".jpg">>, <<"a", ".txt">>,
   <<"i", "/", "a", ".png">>, <<"i", "/", "j", "/", "b", ".png">>}

StaticFiles ==
  {[relativePath |-> path, readable |-> TRUE] : path \in MediaPaths}
  \cup {[relativePath |-> <<"b", ".gif">>, readable |-> FALSE]}

\* an empty directory
EmptyDir == [name \in {} |-> <<>>]

InitMedia ==
  /\ \/ \E files \in SeqsUpTo(StaticFiles, MaxRefs) :
          /\ \A j, k \in 1..Len(files) : j # k => files[j] # files[k]
          /\ dir = [root |-> "/temp/course1", static |-> [st |-> "ok", files |-> files]]
     \/ \E st \in {"absent", "unreadable"} :
          dir = [root |-> "/temp/course1", static |-> [st |-> st, files |-> <<>>]]
  /\ pc = "start"
  /\ arg = None /\ tree = None /\ doc = None /\ ret = None
  /\ courseIndex = 0 /\ conversionResults = <<>>
  /\ fs = None

\* processMediaFiles into an empty media directory
ProcessMediaFiles ==
  /\ pc = "start"
  /\ ret' = processMediaFiles(dir, EmptyDir)
  /\ pc' = IF ret'.ok THEN "copied" ELSE "failed"
  /\ UNCHANGED <<dir, tree, doc, arg, courseIndex, conversionResults>>
  /\ UNCHANGED fs

\* rewriteMediaPaths on a reference src="/static/<relative path of a file>"
RewriteMediaPaths ==
  /\ pc = "copied"
  /\ \E k \in 1..Len(dir.static.files) :
       /\ arg' = dir.static.files[k].relativePath
       /\ doc' = MediaReference(arg')
  /\ pc' = "rewritten"
  /\ UNCHANGED <<dir, tree, ret, courseIndex, conversionResults>>
  /\ UNCHANGED fs

NextMedia == ProcessMediaFiles \/ RewriteMediaPaths

SpecMedia == InitMedia /\ [][NextMedia]_vars

\* ------------------------------------------------ sanitizeFileName on any name
MaxNameLen == 4

\* the characters of the names: safe ones, unsafe ones and the underscore
FileNameChars == {"a", ".", "-", " ", "/", "_"}

InitSanitize ==
  /\ \E fileName \in SeqsUpTo(FileNameChars, MaxNameLen) : arg = fileName
  /\ pc = "start"
  /\ dir = None /\ tree = None /\ doc = None /\ ret = None
  /\ courseIndex = 0 /\ conversionResults = <<>>
  /\ fs = None

\* sanitizeFileName(fileName)
SanitizeFileName ==
  /\ pc = "start"
  /\ doc' = sanitizeFileName(arg)
  /\ pc' = "sanitized"
  /\ UNCHANGED <<dir, tree, arg, ret, courseIndex, conversionResults>>
  /\ UNCHANGED fs

\* sanitizeFileName of the result
SanitizeAgain ==
  /\ pc = "sanitized"
  /\ ret' = sanitizeFileName(doc)
  /\ pc' = "sanitized twice"
  /\ UNCHANGED <<dir, tree, doc, arg, courseIndex, conversionResults>>
  /\ UNCHANGED fs

NextSanitize == SanitizeFileName \/ SanitizeAgain

SpecSanitize == InitSanitize /\ [][NextSanitize]_vars

\* ------------------------------------------- the input path: validateAndSetup
(* A file name is the sequence of its parts; ".tar.gz" is one part.  The    *)
(* input path is absent, a file, a directory with its entries in readdir    *)
(* order, or something that is neither a file nor a directory.              *)
\* name.endsWith('.tar.gz')
EndsWithTarGz(name) == name # <<>> /\ name[Len(name)] = ".tar.gz"

\* getFileInfo that takes any existing file
getFileInfoAnyFile(inputPath) ==
  IF inputPath.kind = "absent"
  THEN Err(<<"Input path does not exist: ">> \o inputPath.path)
  ELSE IF inputPath.kind = "file"
  THEN Ok([isValid |-> TRUE, isFile |-> TRUE, isDirectory |-> FALSE,
           files |-> <<inputPath.path>>])
  ELSE IF inputPath.kind = "directory"
  THEN IF SelectSeq(inputPath.entries, EndsWithTarGz) = <<>>
       THEN Err(<<"Input directory contains no .tar.gz files: ">> \o inputPath.path)
       ELSE Ok([isValid |-> TRUE, isFile |-> FALSE, isDirectory |-> TRUE,
                files |-> [k \in 1..Len(SelectSeq(inputPath.entries, EndsWithTarGz)) |->
                             inputPath.path \o <<"/">>
                             \o SelectSeq(inputPath.entries, EndsWithTarGz)[k]]])
  ELSE Ok([isValid |-> FALSE, isFile |-> FALSE, isDirectory |-> FALSE, files |-> <<>>])

getFileInfo(inputPath) ==
  IF inputPath.kind = "absent"
  THEN Err(<<"Input path does not exist: ">> \o inputPath.path)
  ELSE IF inputPath.kind = "file"
  THEN IF ~EndsWithTarGz(inputPath.path)
       THEN Err(<<"Input file must be a .tar.gz file: ">> \o inputPath.path)
       ELSE Ok([isValid |-> TRUE, isFile |-> TRUE, isDirectory |-> FALSE,
                files |-> <<inputPath.path>>])
  ELSE IF inputPath.kind = "directory"
  THEN IF SelectSeq(inputPath.entries, EndsWithTarGz) = <<>>
       THEN Err(<<"Input directory contains no .tar.gz files: ">> \o inputPath.path)
       ELSE Ok([isValid |-> TRUE, isFile |-> FALSE, isDirectory |-> TRUE,
                files |-> [k \in 1..Len(SelectSeq(inputPath.entries, EndsWithTarGz)) |->
                             inputPath.path \o <<"/">>
                             \o SelectSeq(inputPath.entries, EndsWithTarGz)[k]]])
  ELSE Ok([isValid |-> FALSE, isFile |-> FALSE, isDirectory |-> FALSE, files |-> <<>>])

\* the catch block logs the message and returns false
validateInputPath(inputPath) ==
  Catch(Try(getFileInfo(inputPath), LAMBDA fileInfo : Ok(fileInfo.isValid)),
        LAMBDA message : Ok(FALSE))

getTarGzFiles(inputPath) ==
  Try(getFileInfo(inputPath), LAMBDA fileInfo : Ok(fileInfo.files))

\* the output directory after createOutputDirectory
createOutputDirectory(outputDir) == "exists"

\* the list of archives, or the throw
validateAndSetup(inputPath) ==
  IF ~validateInputPath(inputPath).val THEN Err(<<"Input validation failed">>)
  ELSE getTarGzFiles(inputPath)

\* the names of the entries of an input directory
EntryNames ==
  {<<"a", ".tar.gz">>, <<"b", ".tar.gz">>, <<"a", ".zip">>, <<"a", ".tar.gz", ".bak">>}

InputPaths ==
  {[kind |-> "absent", path |-> <<"in">>, entries |-> <<>>],
   [kind |-> "other", path |-> <<"in">>, entries |-> <<>>]}
  \cup {[kind |-> "file", path |-> <<"in", "/">> \o name, entries |-> <<>>] :
          name \in EntryNames \cup {<<".tar.gz">>}}
  \cup {[kind |-> "directory", path |-> <<"in">>, entries |-> entries] :
          entries \in {e \in SeqsUpTo(EntryNames, MaxRefs + 1) :
                         \A j, k \in 1..Len(e) : j # k => e[j] # e[k]}}

InitInput ==
  /\ arg \in InputPaths
  /\ fs \in {[outputDir |-> "absent"], [outputDir |-> "exists"]}
  /\ pc = "start"
  /\ dir = None /\ tree = None /\ doc = None /\ ret = None
  /\ courseIndex = 0 /\ conversionResults = <<>>

GetFileInfo ==
  /\ pc = "start"
  /\ ret' = getFileInfo(arg)
  /\ pc' = IF ret'.ok THEN "info" ELSE "info threw"
  /\ UNCHANGED <<dir, tree, doc, arg, courseIndex, conversionResults, fs>>

ValidateInputPath ==
  /\ pc = "start"
  /\ ret' = validateInputPath(arg)
  /\ pc' = IF ret'.ok THEN "validated" ELSE "validate threw"
  /\ UNCHANGED <<dir, tree, doc, arg, courseIndex, conversionResults, fs>>

\* main up to the call of processCourses
ValidateAndSetup ==
  /\ pc = "start"
  /\ ret' = validateAndSetup(arg)
  /\ pc' = IF ret'.ok THEN "setup" ELSE "setup threw"
  /\ fs' = IF validateInputPath(arg).val
           THEN [fs EXCEPT !.outputDir = createOutputDirectory(fs.outputDir)]
           ELSE fs
  /\ UNCHANGED <<dir, tree, doc, arg, courseIndex, conversionResults>>

\* await processCourses(tarGzFiles): the loop starts
ProcessCourses ==
  /\ pc = "setup"
  /\ pc' = "processing"
  /\ tree' = ret.val
  /\ UNCHANGED <<dir, doc, arg, ret, courseIndex, conversionResults, fs>>

\* the catch block of main: process.exit(1)
FatalError ==
  /\ pc = "setup threw"
  /\ pc' = "exit 1"
  /\ UNCHANGED <<dir, tree, doc, arg, ret, courseIndex, conversionResults, fs>>

NextInput ==
  GetFileInfo \/ ValidateInputPath \/ ValidateAndSetup \/ ProcessCourses \/ FatalError

SpecInput == InitInput /\ [][NextInput]_vars

\* --------------------------------------------------------- reading the results
Contains(str, token) == \E k \in 1..Len(str) : str[k] = token

HasInfix(str, part) ==
  \E p \in 1..(Len(str) - Len(part) + 1) : SubSeq(str, p, p + Len(part) - 1) = part

RECURSIVE Flatten(_)
Flatten(seqs) == IF seqs = <<>> THEN <<>> ELSE Head(seqs) \o Flatten(Tail(seqs))

RECURSIVE Ascending(_)
Ascending(S) ==
  IF S = {} THEN <<>>
  ELSE Bind(CHOOSE x \in S : \A y \in S : x <= y,
            LAMBDA m : <<m>> \o Ascending(S \ {m}))

\* a heading line starts at p: the prefix, a space, the title, up to the line's end
IsHeadingAt(str, p, prefix) ==
  /\ p < Len(str)
  /\ str[p] = prefix
  /\ str[p + 1] = " "
  /\ (p = 1 \/ str[p - 1] = NL)

EndOfLine(str, p) ==
  CHOOSE q \in p..(Len(str) + 1) :
    /\ q = Len(str) + 1 \/ str[q] = NL
    /\ \A r \in p..(q - 1) : str[r] # NL

TitleAt(str, p) == SubSeq(str, p + 2, EndOfLine(str, p + 2) - 1)

HeadingPositions(str, prefix) ==
  Ascending({p \in 1..Len(str) : IsHeadingAt(str, p, prefix)})

\* the titles of the heading lines of one level, in document order
Headings(str, prefix) ==
  Bind(HeadingPositions(str, prefix),
       LAMBDA ps : [k \in 1..Len(ps) |-> TitleAt(str, ps[k])])

Titles(nodes) == [k \in 1..Len(nodes) |-> nodes[k].title]

Ids(nodes) == [k \in 1..Len(nodes) |-> nodes[k].id]

\* the nodes of a tree, level by level, in depth-first order
SequentialsOf(courseTree) ==
  Flatten([k \in 1..Len(courseTree.chapters) |-> courseTree.chapters[k].sequentials])

VerticalsOf(courseTree) ==
  Flatten([k \in 1..Len(SequentialsOf(courseTree)) |->
             SequentialsOf(courseTree)[k].verticals])

\* the url_name attributes that the children <tag> of a file's root element declare
HasUrlName(e) == Attr(e, "url_name") # ""

DeclaredRefs(file, parentTag, tag) ==
  IF file.st # "ok" \/ file.root \notin {parentTag, UpperCase(parentTag)} THEN <<>>
  ELSE Bind(SelectSeq(IF tag \in DOMAIN file.node.kids THEN file.node.kids[tag]
                      ELSE IF UpperCase(tag) \in DOMAIN file.node.kids
                      THEN file.node.kids[UpperCase(tag)] ELSE <<>>, HasUrlName),
            LAMBDA l : [k \in 1..Len(l) |-> Attr(l[k], "url_name")])

\* the file that holds the details of the course
CourseDetailFile ==
  IF dir.courseXml.st = "ok" /\ dir.courseXml.root \in {"course", "COURSE"}
     /\ Attr(dir.courseXml.node, "url_name") # ""
     /\ dir.course[Attr(dir.courseXml.node, "url_name")].st # "absent"
  THEN dir.course[Attr(dir.courseXml.node, "url_name")]
  ELSE dir.courseXml

UnreadableIn(folder) == \E name \in DOMAIN folder : folder[name].st = "unreadable"

\* a structural file below course.xml exists and cannot be read
UnreadableStructure ==
  \/ UnreadableIn(dir.course) \/ UnreadableIn(dir.chapter)
  \/ UnreadableIn(dir.sequential) \/ UnreadableIn(dir.vertical)

\* --------------------------------------------------------------------- claims

\* what processing the k-th component of the vertical gives: its Markdown or a throw
Processed(k) ==
  Try(parseComponent(dir, arg.components[k]), LAMBDA componentIR : renderComponent(componentIR))

ExpectedBlock(k) ==
  IF Processed(k).ok THEN <<Processed(k).val>>
  ELSE << <<"####", " ", "Learning Content ", ToString(k), NL>>,
          <<"*Content temporarily unavailable: ">> \o Processed(k).msg
            \o <<"*", NL, NL, "---", NL>> >>

\* C1: transformNodeToMarkdown on a vertical never throws because a component's
\* parse or render threw: the result is the components' blocks joined in component
\* order, where the block of a component that threw is the placeholder holding
\* 'Content temporarily unavailable: ' and the error's message, at the component's
\* own position, and the block of every other component is its rendering.
C1_LeafFailureAbsorbed ==
  pc \in {"done", "failed"} =>
    /\ ret.ok
    /\ ret.val = Join(Flatten([k \in 1..Len(arg.components) |-> ExpectedBlock(k)]), NL)

C1_Witness ==
  /\ pc = "done"
  /\ Len(arg.components) = 3
  /\ Processed(1).ok /\ ~Processed(2).ok /\ Processed(3).ok
  /\ HasInfix(ret.val, <<"*Content temporarily unavailable: ">> \o Processed(2).msg)

FolderOf(level) ==
  CASE level = "chapter" -> dir.chapter
    [] level = "sequential" -> dir.sequential
    [] OTHER -> dir.vertical

ChildrenOfNode(node, level) ==
  CASE level = "chapter" -> node.sequentials
    [] level = "sequential" -> node.verticals
    [] OTHER -> node.components

MissingTitle(level, ref) ==
  CASE level = "chapter" -> <<"Missing chapter ", ref>>
    [] level = "sequential" -> <<"Missing sequential ", ref>>
    [] OTHER -> <<"Missing vertical ", ref>>

\* C2: whenever parseChapters, parseSequentials or parseVerticals returns, the
\* result has one node per reference, in the order of the references; the node of
\* a reference whose file is absent is the placeholder (id = ref, title 'Missing
\* <level> <ref>', no children) and only such a node is a placeholder; a present
\* sibling keeps the title its file gives.  The call throws only when a file that
\* exists cannot be read.
C2_MissingStructuralFile ==
  /\ pc = "done" =>
       /\ Len(ret.val) = Len(arg.refs)
       /\ \A k \in 1..Len(arg.refs) :
            /\ ret.val[k].id = arg.refs[k]
            /\ IF FolderOf(arg.level)[arg.refs[k]].st = "absent"
               THEN /\ ret.val[k].title = MissingTitle(arg.level, arg.refs[k])
                    /\ ChildrenOfNode(ret.val[k], arg.level) = <<>>
               ELSE ret.val[k].title =
                      TitleOf(RootNode(FolderOf(arg.level)[arg.refs[k]], arg.level),
                              arg.refs[k])
  /\ pc = "failed" => UnreadableStructure

C2_Witness ==
  /\ pc = "done"
  /\ Len(arg.refs) = 2
  /\ FolderOf(arg.level)[arg.refs[1]].st = "absent"
  /\ FolderOf(arg.level)[arg.refs[2]].st = "ok"
  /\ ret.val[1].title = MissingTitle(arg.level, arg.refs[1])
  /\ ret.val[2].title # MissingTitle(arg.level, arg.refs[2])

\* whether every step of the pipeline succeeds on an archive
Converts(archive) ==
  Try(extractCourse(archive),
      LAMBDA extractedDir :
        Try(resolveCourseRoot(extractedDir),
            LAMBDA courseRoot :
              Try(buildCourseTree(courseRoot),
                  LAMBDA courseTree :
                    Try(transformCourseToMarkdown(courseTree, courseRoot),
                        LAMBDA markdownContent :
                          generateCourseOutput(archive.fileName, markdownContent,
                                               courseRoot, archive.disk))))).ok

ArchiveConverts == [archive \in Archives |-> Converts(archive)]

ResultsMatchArchives ==
  /\ Len(conversionResults) = courseIndex
  /\ courseIndex <= Len(arg)
  /\ \A k \in 1..Len(conversionResults) :
       /\ conversionResults[k].fileName = arg[k].fileName
       /\ conversionResults[k].success = ArchiveConverts[arg[k]]
  /\ pc = "returned" =>
       /\ ret.ok
       /\ Len(conversionResults) = Len(arg)
       /\ ret.val.successCount + ret.val.failCount = Len(arg)
       /\ ret.val.successCount = Cardinality({k \in 1..Len(arg) : ArchiveConverts[arg[k]]})

LoopSteps == {"extract", "resolve", "build", "transform", "output"}

\* a step of the loop body either hands over to the next step, or ends the
\* iteration with one more result, which is a failure unless the step was the last
StepIsCaught ==
  pc \in LoopSteps =>
    \/ pc' \in LoopSteps /\ pc' # pc
       /\ courseIndex' = courseIndex /\ conversionResults' = conversionResults
    \/ /\ pc' = "loop"
       /\ courseIndex' = courseIndex + 1
       /\ Len(conversionResults') = Len(conversionResults) + 1
       /\ SubSeq(conversionResults', 1, Len(conversionResults)) = conversionResults
       /\ conversionResults'[courseIndex'].success => pc = "output"

\* C3: processCourses pushes exactly one result per archive it has gone through, in
\* input order and under the archive's name; a result is a failure exactly when a
\* step of that archive's pipeline failed; a failing step never leaves the loop:
\* it ends the iteration with one failed result and the loop goes to the next
\* archive; when processCourses returns there is one result per input archive and
\* successCount + failCount is the number of archives.
C3_OneResultPerArchive == []ResultsMatchArchives /\ [][StepIsCaught]_vars

C3_Witness ==
  /\ pc = "returned"
  /\ Len(arg) = 3
  /\ ~conversionResults[1].success
  /\ conversionResults[2].success
  /\ ~conversionResults[3].success
  /\ ret.val.successCount = 1 /\ ret.val.failCount = 2

\* the chapter references that the course declares and whose file is absent
MissingChapters ==
  {ref \in {DeclaredRefs(CourseDetailFile, "course", "chapter")[k] :
              k \in 1..Len(DeclaredRefs(CourseDetailFile, "course", "chapter"))} :
     dir.chapter[ref].st = "absent"}

MissingChapterHeadings ==
  \A ref \in MissingChapters : HasInfix(doc.val, <<"##", " ", "Missing chapter ", ref, NL>>)

\* C4 as stated: for a course whose course.xml is readable and declares a chapter
\* whose file is absent, building the tree and transforming it never throws and the
\* document holds the heading 'Missing chapter <ref>'.
C4_AsStated ==
  (dir.courseXml.st = "ok" /\ MissingChapters # {}) =>
    /\ pc # "failed"
    /\ pc = "done" => MissingChapterHeadings

\* C4: for a course whose course.xml is readable, that declares a chapter whose
\* file is absent, and none of whose structural files is unreadable, building the
\* tree and transforming it never throws, and the document holds, for every such
\* chapter, the level-2 heading line 'Missing chapter <ref>'.
C4_MissingChapterHeading ==
  (dir.courseXml.st = "ok" /\ MissingChapters # {} /\ ~UnreadableStructure) =>
    /\ pc # "failed"
    /\ pc = "done" => MissingChapterHeadings

C4_Witness ==
  /\ pc = "done"
  /\ MissingChapters # {}
  /\ Len(tree.val.chapters) = 2
  /\ tree.val.chapters[2].sequentials # <<>>
  /\ MissingChapterHeadings

\* C5 as stated: buildCourseTree throws only if course.xml is absent or unreadable.
C5_AsStated ==
  pc = "failed" => dir.courseXml.st \in {"absent", "unreadable"}

\* C5: buildCourseTree throws only if course.xml is absent, or if course.xml or a
\* structural file below it (course/<url_name>.xml, a chapter, sequential or
\* vertical file) exists and cannot be read; whatever else is absent, empty or
\* wrongly rooted, it returns a tree.  A throw carries the reason.
C5_BuildFailsOnlyOnCourseXml ==
  /\ tree # None /\ ~tree.ok =>
       \/ dir.courseXml.st = "absent" /\ tree.msg[1] = "course.xml not found at "
       \/ (dir.courseXml.st = "unreadable" \/ UnreadableStructure)
          /\ tree.msg = <<"EACCES: permission denied">>
  /\ (pc # "start" /\ dir.courseXml.st = "ok" /\ ~UnreadableStructure) => tree.ok

C5_Witness ==
  /\ pc = "built"
  /\ tree.ok
  /\ \E a, b \in ChapterIds :
       /\ dir.chapter[a].st = "absent"
       /\ dir.chapter[b].st = "ok" /\ dir.chapter[b].root \notin {"chapter", "CHAPTER"}
       /\ Ids(tree.val.chapters) = <<a, b>>
       /\ tree.val.chapters[2].sequentials = <<>>

RECURSIVE ChildCount(_, _)
ChildCount(kids, tags) ==
  IF tags = {} THEN 0
  ELSE Bind(CHOOSE t \in tags : TRUE,
            LAMBDA t : Len(kids[t]) + ChildCount(kids, tags \ {t}))

\* the vertical files that the tree has read
ReadVerticals ==
  {v \in {VerticalsOf(tree.val)[k] : k \in 1..Len(VerticalsOf(tree.val))} :
     dir.vertical[v.id].st = "ok" /\ dir.vertical[v.id].root \in {"vertical", "VERTICAL"}}

\* C6 as stated: every component child element of a vertical that is read yields a
\* block: the vertical has as many component references (one block each) as its
\* file has child elements, and a child of a kind other than html, problem, video
\* and about is named by kind in the document.
C6_AsStated ==
  pc = "done" =>
    \A v \in ReadVerticals :
      /\ Len(v.components) =
           ChildCount(dir.vertical[v.id].node.kids, DOMAIN dir.vertical[v.id].node.kids)
      /\ \A t \in DOMAIN dir.vertical[v.id].node.kids :
           (dir.vertical[v.id].node.kids[t] # <<>>
            /\ LowerCase(t) \notin {"html", "problem", "video", "about"})
             => Contains(doc.val, t)

\* a directory in which no component file exists
NoFilesDir ==
  [dir EXCEPT !.htmlXml = [id \in DOMAIN dir.htmlXml |-> Absent],
              !.htmlBody = [id \in DOMAIN dir.htmlBody |-> Absent],
              !.problem = [id \in DOMAIN dir.problem |-> Absent],
              !.video = [id \in DOMAIN dir.video |-> Absent],
              !.about = Absent]

IsKnownKind(kind) == LowerCase(kind) \in {"html", "problem", "video", "about"}

UnknownKindHandled ==
  /\ pc # "failed"
  /\ pc \in {"parsed", "done"} =>
       /\ ret.val.type = "unknown"
       /\ ret = parseComponent(NoFilesDir, arg)
  /\ pc = "done" => Contains(doc.val, arg.kind) /\ Contains(doc.val, arg.id)

AllPrefixes == {"#", "##", "###", "####", "#####"}

\* the Markdown of a sequential: its heading line, then the component blocks of
\* its verticals, vertical by vertical
SequentialBlock(sequential) ==
  Join(<< <<"###", " ">> \o sequential.title \o <<NL>> >>
       \o [k \in 1..Len(sequential.verticals) |->
             Join(ComponentsLines(dir, sequential.verticals[k].components, 0), NL)],
       NL)

\* C8: in the document the course title is the first level-1 heading, every
\* chapter title is a level-2 heading and no heading of another level, every
\* sequential title is a level-3 heading, the level-3 headings are the sequentials
\* of the tree, no vertical title occurs anywhere in the document, and right after
\* the heading of each sequential come the component blocks of its verticals, in
\* the order of the verticals and of their components.
C8_HeadingLevels ==
  pc = "done" =>
    /\ Headings(doc.val, "#") # <<>>
    /\ Headings(doc.val, "#")[1] = tree.val.title
    /\ \A k \in 1..Len(tree.val.chapters) :
         /\ Contains(Headings(doc.val, "##"), tree.val.chapters[k].title)
         /\ \A prefix \in AllPrefixes \ {"##"} :
              ~Contains(Headings(doc.val, prefix), tree.val.chapters[k].title)
    /\ Headings(doc.val, "###") = Titles(SequentialsOf(tree.val))
    /\ \A k \in 1..Len(VerticalsOf(tree.val)) :
         ~HasInfix(doc.val, VerticalsOf(tree.val)[k].title)
    /\ \A k \in 1..Len(SequentialsOf(tree.val)) :
         SubSeq(doc.val, HeadingPositions(doc.val, "###")[k],
                HeadingPositions(doc.val, "###")[k]
                  + Len(SequentialBlock(SequentialsOf(tree.val)[k])) - 1)
           = SequentialBlock(SequentialsOf(tree.val)[k])

C8_Witness ==
  /\ pc = "done"
  /\ Len(tree.val.chapters) = 2
  /\ Len(SequentialsOf(tree.val)) >= 2
  /\ \E k \in 1..Len(SequentialsOf(tree.val)) :
       /\ Len(SequentialsOf(tree.val)[k].verticals) = 2
       /\ \A j \in 1..2 : Len(SequentialsOf(tree.val)[k].verticals[j].components) >= 2
       /\ SequentialsOf(tree.val)[k].verticals[1].title = <<"Unit One">>

\* the children of every node are stored in the order in which they are declared
StoredInDeclaredOrder ==
  /\ Ids(tree.val.chapters) = DeclaredRefs(CourseDetailFile, "course", "chapter")
  /\ \A k \in 1..Len(tree.val.chapters) :
       Ids(tree.val.chapters[k].sequentials)
         = DeclaredRefs(dir.chapter[tree.val.chapters[k].id], "chapter", "sequential")
  /\ \A k \in 1..Len(SequentialsOf(tree.val)) :
       Ids(SequentialsOf(tree.val)[k].verticals)
         = DeclaredRefs(dir.sequential[SequentialsOf(tree.val)[k].id], "sequential",
                        "vertical")

\* C9 as stated: the tree stores the children in declared order and the k-th
\* declared chapter is the k-th level-2 heading of the document.
C9_AsStated ==
  /\ pc \in {"built", "done"} => StoredInDeclaredOrder
  /\ pc = "done" => Headings(doc.val, "##") = Titles(tree.val.chapters)

IsChapterTitle(title) == Contains(Titles(tree.val.chapters), title)

\* C9: the tree stores the chapters, the sequentials of each chapter and the
\* verticals of each sequential in the order in which the parent file declares
\* them; in the document the level-2 headings that carry a chapter title are the
\* chapters in that order (the k-th of them is the k-th declared chapter), and the
\* level-3 headings are the sequentials in depth-first order.  Component content
\* may put level-2 headings of its own between them.
C9_DocumentOrder ==
  /\ pc \in {"built", "done"} => StoredInDeclaredOrder
  /\ pc = "done" =>
       /\ SelectSeq(Headings(doc.val, "##"), IsChapterTitle) = Titles(tree.val.chapters)
       /\ Headings(doc.val, "###") = Titles(SequentialsOf(tree.val))

C9_Witness ==
  /\ pc = "done"
  /\ Ids(tree.val.chapters) = <<"c2", "c1">>
  /\ Len(Headings(doc.val, "##")) > 2
  /\ Len(SequentialsOf(tree.val)) = 2

\* the child elements of the node that collectComponentRefs is to turn into refs
ChildrenOfKind(kind) ==
  (IF kind \in DOMAIN arg.kids THEN arg.kids[kind] ELSE <<>>)
  \o (IF UpperCase(kind) \in DOMAIN arg.kids THEN arg.kids[UpperCase(kind)] ELSE <<>>)

ExpectedRef(kind, it) ==
  [kind |-> kind,
   id |-> IF "url_name" \in DOMAIN it.attrs THEN it.attrs["url_name"]
          ELSE IF "url" \in DOMAIN it.attrs THEN it.attrs["url"]
          ELSE IF "filename" \in DOMAIN it.attrs THEN it.attrs["filename"]
          ELSE "unknown"]

ExpectedRefs(kind) ==
  [k \in 1..Len(ChildrenOfKind(kind)) |-> ExpectedRef(kind, ChildrenOfKind(kind)[k])]

\* C10 as stated: collectComponentRefs returns, kind by kind in the order html,
\* problem, video, about, one ref per child element of the kind in either tag
\* form, in source order, with the lowercase kind and the id taken from url_name,
\* else url, else filename, else 'unknown'.
C10_AsStated ==
  pc = "done" =>
    ret = ExpectedRefs("html") \o ExpectedRefs("problem") \o ExpectedRefs("video")
          \o ExpectedRefs("about")

\* the node has a child element of the tag
Present(node, tag) == tag \in DOMAIN node.kids /\ node.kids[tag] # <<>>

\* the problem element that problem/x1.xml holds
ProblemNode == dir.problem["x1"].node

\* the type that the first response element present in the problem stands for
ExpectedProblemType(problem) ==
  IF Present(problem, "multiplechoiceresponse") THEN "multiple_choice"
  ELSE IF Present(problem, "choiceresponse")
  THEN IF Present(problem.kids["choiceresponse"][1], "checkboxgroup")
       THEN "multiple_choice" ELSE "choice"
  ELSE IF Present(problem, "optionresponse") THEN "selection"
  ELSE IF Present(problem, "stringresponse") THEN "text_input"
  ELSE IF Present(problem, "numericalresponse") THEN "number_input"
  ELSE IF Present(problem, "formularesponse") THEN "formula"
  ELSE IF Present(problem, "coderesponse") THEN "code"
  ELSE "unknown"

\* C11 as stated: the problem type is that of the first response element present
\* in the problem, in the order multiplechoiceresponse, choiceresponse (multiple
\* choice with a checkboxgroup, choice otherwise), optionresponse, stringresponse,
\* numericalresponse, formularesponse, coderesponse, else unknown, whatever the
\* component's id and display name are.
C11_AsStated ==
  pc \in {"parsed", "hints", "done"} =>
    ret.val.problemType = ExpectedProblemType(ProblemNode)

\* the bullets of a rendered problem, in order: marker and text of each '- ' line
RECURSIVE BulletsFrom(_, _)
BulletsFrom(d, i) ==
  IF i + 3 > Len(d) THEN <<>>
  ELSE IF d[i] = "- "
  THEN <<[marker |-> d[i + 1], text |-> d[i + 3]]>> \o BulletsFrom(d, i + 4)
  ELSE BulletsFrom(d, i + 1)

\* the choice elements of the group of a response element of the problem
GroupChoices(problem, responseTag, groupTag) ==
  IF Present(problem, responseTag) /\ Present(problem.kids[responseTag][1], groupTag)
     /\ Present(problem.kids[responseTag][1].kids[groupTag][1], "choice")
  THEN problem.kids[responseTag][1].kids[groupTag][1].kids["choice"]
  ELSE <<>>

\* one bullet per choice: the first marker for correct="true", else the second
ExpectedBullets(choices, markCorrect, markWrong) ==
  [k \in 1..Len(choices) |->
     [marker |-> IF Attr(choices[k], "correct") = "true" THEN markCorrect ELSE markWrong,
      text |-> Attr(choices[k], "#text")]]

\* C12 as stated: a rendered multiple-choice problem holds exactly one bullet
\* '- [[X]] text' or '- [[ ]] text' per choice of its choicegroup and of its
\* checkboxgroup, in source order, for one or more choices; a rendered choice
\* problem holds '- [(X)] text' or '- [( )] text' per choice of its choicegroup.
C12_AsStated ==
  pc = "done" =>
    /\ ret.val.problemType = "multiple_choice" =>
         BulletsFrom(doc.val, 1) =
           ExpectedBullets(GroupChoices(ProblemNode, "multiplechoiceresponse", "choicegroup")
                           \o GroupChoices(ProblemNode, "choiceresponse", "checkboxgroup"),
                           "[[X]]", "[[ ]]")
    /\ ret.val.problemType = "choice" =>
         BulletsFrom(doc.val, 1) =
           ExpectedBullets(GroupChoices(ProblemNode, "choiceresponse", "choicegroup"),
                           "[(X)]", "[( )]")

\* the same for groups of two or more choices
C12_TwoOrMore ==
  (pc = "done"
   /\ \A tags \in {<<"multiplechoiceresponse", "choicegroup">>,
                   <<"choiceresponse", "checkboxgroup">>,
                   <<"choiceresponse", "choicegroup">>} :
        Len(GroupChoices(ProblemNode, tags[1], tags[2])) # 1)
    => C12_AsStated

\* the option elements of the optioninput of the problem's optionresponse
OptionsOfProblem(problem) ==
  IF Present(problem, "optionresponse")
     /\ Present(problem.kids["optionresponse"][1], "optioninput")
     /\ Present(problem.kids["optionresponse"][1].kids["optioninput"][1], "option")
  THEN problem.kids["optionresponse"][1].kids["optioninput"][1].kids["option"]
  ELSE <<>>

\* '[[ o1 | o2 | ... ]]' with the options whose correct attribute is 'true' in
\* any case wrapped as '( text )'
ExpectedOptionLine(options) ==
  <<"[[ ">>
  \o Join([k \in 1..Len(options) |->
             IF LowerCase(Attr(options[k], "correct")) = "true"
             THEN <<"( ", Attr(options[k], "#text"), " )">>
             ELSE <<Attr(options[k], "#text")>>], " | ")
  \o <<" ]]">>

\* the number of times the token occurs in the document
Occurrences(d, token) == Cardinality({k \in 1..Len(d) : d[k] = token})

\* C13 as stated: a rendered selection problem with at least one option holds
\* exactly one line '[[ o1 | o2 | ... ]]' of all options in source order, the
\* correct ones (case-insensitively 'true') wrapped as '( text )'; with no option
\* it holds no such line.
C13_AsStated ==
  (pc = "done" /\ ret.val.problemType = "selection") =>
    IF OptionsOfProblem(ProblemNode) # <<>>
    THEN /\ Occurrences(doc.val, "[[ ") = 1
         /\ HasInfix(doc.val, ExpectedOptionLine(OptionsOfProblem(ProblemNode)))
    ELSE Occurrences(doc.val, "[[ ") = 0

\* the same when no option is a bare number and the optioninput is not empty
C13_TextOptions ==
  (/\ \A k \in 1..Len(OptionsOfProblem(ProblemNode)) :
        OptionsOfProblem(ProblemNode)[k] # TextElem("5")
   /\ Present(ProblemNode, "optionresponse")
        => ~(Present(ProblemNode.kids["optionresponse"][1], "optioninput")
             /\ OptionsOfProblem(ProblemNode) = <<>>))
    => C13_AsStated

\* the stringresponse element of the problem and its additional_answer elements
StringResponseOf(problem) == problem.kids["stringresponse"][1]

AdditionalOf(response) ==
  IF Present(response, "additional_answer") THEN response.kids["additional_answer"] ELSE <<>>

\* the strings of the sequence that are not empty, in order
NonEmpty(strings) == SelectSeq(strings, LAMBDA str : str # "")

\* an additional_answer that the parser returns as a plain string: no attribute,
\* and a text that is no number
IsPlainString(v) == DOMAIN v.attrs = {"#text"} /\ v.attrs["#text"] \notin NumericTexts

\* the answer line for the given answers: joined by ' | ', or '[[ ]]' for none
ExpectedAnswerLine(answers) ==
  IF answers = <<>> THEN <<NL, "    [[ ]]", NL>>
  ELSE <<NL, "    [[">>
       \o Join([k \in 1..Len(answers) |-> <<answers[k]>>], " | ")
       \o <<"]]", NL>>

AnswerLines(d) == Occurrences(d, "    [[") + Occurrences(d, "    [[ ]]")

\* C14 as stated: a rendered text-input problem holds the one line '    [[a1 | a2
\* | ...]]' of the trimmed answer attribute and the trimmed answer attributes of
\* the additional_answer elements in source order, the empty ones removed, or
\* '    [[ ]]' when none remains.
C14_AsStated ==
  (pc = "done" /\ ret.val.problemType = "text_input") =>
    /\ AnswerLines(doc.val) = 1
    /\ HasInfix(doc.val,
         ExpectedAnswerLine(NonEmpty(
           <<Trim(Attr(StringResponseOf(ProblemNode), "answer"))>>
           \o [k \in 1..Len(AdditionalOf(StringResponseOf(ProblemNode))) |->
                 Trim(Attr(AdditionalOf(StringResponseOf(ProblemNode))[k], "answer"))])))

\* C14: a rendered text-input problem holds the one line '    [[a1 | a2 | ...]]'
\* of the trimmed answer attribute followed, for each additional_answer element in
\* source order, by its trimmed answer attribute or, when the element is a plain
\* string (no attribute, text not numeric), by its trimmed text, the empty ones
\* removed, or '    [[ ]]' when none remains.
C14_TextInputAnswers ==
  (pc = "done" /\ ret.val.problemType = "text_input") =>
    /\ AnswerLines(doc.val) = 1
    /\ HasInfix(doc.val,
         ExpectedAnswerLine(NonEmpty(
           <<Trim(Attr(StringResponseOf(ProblemNode), "answer"))>>
           \o [k \in 1..Len(AdditionalOf(StringResponseOf(ProblemNode))) |->
                 IF IsPlainString(AdditionalOf(StringResponseOf(ProblemNode))[k])
                 THEN Trim(Attr(AdditionalOf(StringResponseOf(ProblemNode))[k], "#text"))
                 ELSE Trim(Attr(AdditionalOf(StringResponseOf(ProblemNode))[k],
                                "answer"))])))

C14_Witness ==
  /\ pc = "done" /\ ret.val.problemType = "text_input"
  /\ Attr(StringResponseOf(ProblemNode), "answer") = " padded "
  /\ AdditionalOf(StringResponseOf(ProblemNode))
       = <<Elem([answer |-> "   "], NoKids), Elem([answer |-> "fifty-two"], NoKids)>>
  /\ HasInfix(doc.val, <<NL, "    [[", "padded", " | ", "fifty-two", "]]", NL>>)

\* the child elements of the tag, in source order
KidsOf(node, tag) == IF Present(node, tag) THEN node.kids[tag] ELSE <<>>

\* the trimmed texts of the hint, demotedhint and description children of the
\* element, group by group in source order, the empty ones removed
ExpectedHints(node) ==
  NonEmpty([k \in 1..Len(KidsOf(node, "hint") \o KidsOf(node, "demotedhint")
                         \o KidsOf(node, "description")) |->
              Trim(Attr((KidsOf(node, "hint") \o KidsOf(node, "demotedhint")
                         \o KidsOf(node, "description"))[k], "#text"))])

\* the texts of the '- [[?]] ' lines of a rendered problem, in order
RECURSIVE HintsFrom(_, _)
HintsFrom(d, i) ==
  IF i + 1 > Len(d) THEN <<>>
  ELSE IF d[i] = "- [[?]] " THEN <<d[i + 1]>> \o HintsFrom(d, i + 2)
  ELSE HintsFrom(d, i + 1)

\* the rendered problem ends with the '- [[?]] ' lines of the given hints
EndsWithHints(d, hints) ==
  \/ hints = <<>>
  \/ /\ Len(d) >= Len(Join(HintLines(hints), NL))
     /\ SubSeq(d, Len(d) - Len(Join(HintLines(hints), NL)) + 1, Len(d))
          = Join(HintLines(hints), NL)

\* C15 as stated: extractHints returns the trimmed texts of all hint, then all
\* demotedhint, then all description children of the element, each group in source
\* order, the empty ones removed; the rendered problem holds one '- [[?]] text'
\* line per extracted hint, in that order, after the answer body.
C15_AsStated ==
  /\ pc = "hints" => doc = Ok(ExpectedHints(tree))
  /\ pc # "failed"
  /\ pc = "done" =>
       /\ HintsFrom(doc.val, 1) = ExpectedHints(HintRoot(ret.val))
       /\ EndsWithHints(doc.val, ExpectedHints(HintRoot(ret.val)))

\* the same for problems with one response element none of whose hints has a
\* numeric text
C15_TextHints ==
  (/\ ~(Present(ProblemNode, "multiplechoiceresponse")
        /\ Present(ProblemNode, "choiceresponse"))
   /\ \A k \in 1..Len(KidsOf(HintRoot(parseComponent(dir, arg).val), "hint")) :
        Attr(KidsOf(HintRoot(parseComponent(dir, arg).val), "hint")[k], "#text")
          \notin NumericTexts)
    => C15_AsStated

\* the problem was parsed to a type that has no renderer of its own
IsUnsupportedProblem ==
  ret # None /\ ret.ok /\ ret.val.problemType \in {"formula", "code", "unknown"}

\* C16 as stated: rendering a problem of type formula, code or unknown never
\* throws; the result starts with the prompt, holds the 'not supported' marker
\* naming the problem type, and ends with one '- [[?]]' line per hint of the
\* problem root.
C16_AsStated ==
  IsUnsupportedProblem =>
    /\ pc # "failed"
    /\ pc = "done" =>
         /\ Attr(ProblemNode, "<p>") # "" => doc.val[1] = Attr(ProblemNode, "<p>")
         /\ HasInfix(doc.val, <<"problems are supported, type ", ret.val.problemType,
                                " is not supported yet*">>)
         /\ HintsFrom(doc.val, 1) = ExpectedHints(ProblemNode)
         /\ EndsWithHints(doc.val, ExpectedHints(ProblemNode))

\* the same for problems none of whose hints has a numeric text
C16_TextHints ==
  (\A k \in 1..Len(KidsOf(ProblemNode, "hint")) :
     Attr(KidsOf(ProblemNode, "hint")[k], "#text") \notin NumericTexts)
    => C16_AsStated

\* no file of the name exists in the folder
FileAbsent(folder, name) == name \notin DOMAIN folder \/ folder[name].st = "absent"

\* the file of the name exists, and its root element is not the tag
WrongRoot(folder, name, tag) == ~FileAbsent(folder, name) /\ folder[name].root # tag

\* parseComponent threw, with a message that starts as given
ThrewWith(start) == pc = "failed" /\ ~ret.ok /\ ret.msg[1] = start

\* C17: parseComponent throws and returns no IR for a recognised kind (matched
\* case-insensitively) whose data is missing or malformed: html without
\* html/<id>.xml or without html/<id>.html, problem and video without their
\* <id>.xml or with another root element, about without the about directory or
\* without a .html file in it; with its data in place kind 'HTML' gives an html IR.
C17_MissingDataThrows ==
  (pc # "start" /\ arg.kind # "" /\ arg.id # "") =>
    /\ (LowerCase(arg.kind) = "html" /\ FileAbsent(dir.htmlXml, arg.id))
         => ThrewWith("HTML component XML not found: ")
    /\ (LowerCase(arg.kind) = "html" /\ ~FileAbsent(dir.htmlXml, arg.id)
        /\ FileAbsent(dir.htmlBody, arg.id))
         => ThrewWith("HTML component content not found: ")
    /\ (LowerCase(arg.kind) = "problem" /\ FileAbsent(dir.problem, arg.id))
         => ThrewWith("Problem file not found: ")
    /\ (LowerCase(arg.kind) = "problem" /\ WrongRoot(dir.problem, arg.id, "problem"))
         => ThrewWith("Invalid problem XML structure: ")
    /\ (LowerCase(arg.kind) = "video" /\ FileAbsent(dir.video, arg.id))
         => ThrewWith("Video file not found: ")
    /\ (LowerCase(arg.kind) = "video" /\ WrongRoot(dir.video, arg.id, "video"))
         => ThrewWith("Invalid video XML structure: ")
    /\ (LowerCase(arg.kind) = "about" /\ dir.about.st = "absent")
         => ThrewWith("About directory not found: ")
    /\ (LowerCase(arg.kind) = "about" /\ dir.about.st # "absent"
        /\ \A k \in 1..Len(dir.about.files) : dir.about.files[k].ext # ".html")
         => ThrewWith("No HTML files found in about directory: ")
    /\ (arg.kind = "HTML" /\ ~FileAbsent(dir.htmlXml, arg.id)
        /\ ~FileAbsent(dir.htmlBody, arg.id))
         => ret.ok /\ ret.val.type = "html"

C17_Witness ==
  /\ arg = [kind |-> "HTML", id |-> "x1"]
  /\ dir.htmlXml["x1"].st = "ok" /\ dir.htmlBody["x1"].st = "absent"
  /\ ThrewWith("HTML component content not found: ")

\* the video element that video/x1.xml holds
VideoNode == dir.video["x1"].node

\* rendering a video never throws, and a video of unknown type is rendered as the
\* display name followed by the 'not supported' line
VideoRendered ==
  /\ pc # "render failed"
  /\ (pc = "done" /\ ret.val.videoType = "unknown") =>
       doc.val = <<"**", ret.val.displayName, "**", NL, NL,
                   "*only YouTube and external URL videos are supported*", NL>>

C19_YouTubeDirective ==
  (pc \in {"done", "render failed"} /\ ret.val.videoType = "youtube") =>
    /\ pc = "done"
    /\ IF Len(SplitColon(VideoNode.attrs["youtube"])) >= 2
       THEN /\ HasInfix(doc.val,
                 <<NL, "!?[", ret.val.displayName, "](https://www.youtube.com/watch?v=",
                   SplitColon(VideoNode.attrs["youtube"])[2], ")", NL>>)
            /\ ~Contains(doc.val, "*Video ID could not be extracted*")
       ELSE /\ HasInfix(doc.val, <<"**", ret.val.displayName, "**", NL, NL,
                                   "*Video ID could not be extracted*", NL>>)
            /\ ~Contains(doc.val, "!?[")

C19_Witness ==
  /\ pc = "done"
  /\ VideoNode = VideoElem("1.00:abc123,1.50:def456", "http://v/1", "Clip")
  /\ HasInfix(doc.val, <<"!?[", "Clip", "](https://www.youtube.com/watch?v=",
                         "abc123,1.50", ")">>)

\* a youtube attribute without ':' gives the placeholder
C19_PlaceholderReached ==
  /\ pc = "done"
  /\ VideoNode.attrs = [youtube |-> "abc123"]
  /\ Contains(doc.val, "*Video ID could not be extracted*")

\* C20 as stated: for every media file that processMediaFiles copies, from
\* static/ or a subdirectory of it, the reference that rewriteMediaPaths gives
\* for "/static/<relative path>" is './media/<name>' with <name> the file name
\* under which copyMediaFile stored the file.
C20_AsStated ==
  /\ pc \in {"copied", "rewritten"} =>
       \A k \in 1..Len(ret.val.copies) :
         MediaReference(ret.val.copies[k].source) = <<"./media/">> \o ret.val.copies[k].name
  /\ pc = "rewritten" =>
       \A k \in 1..Len(ret.val.copies) :
         ret.val.copies[k].source = arg => doc = <<"./media/">> \o ret.val.copies[k].name

\* the same for the files directly in static/
C20_TopLevel ==
  (\A k \in 1..Len(dir.static.files) :
     \A n \in 1..Len(dir.static.files[k].relativePath) :
       dir.static.files[k].relativePath[n] # "/")
    => C20_AsStated

\* a file directly in static/ whose name is changed by the copy is referred to
\* under its new name
C20_TopLevelReached ==
  /\ pc = "rewritten"
  /\ arg = <<"a", " ", ",", "b", ".jpg">>
  /\ doc = <<"./media/", "a", "_", "b", ".jpg">>
  /\ ret.val.copiedCount = 1

\* C21: sanitizeFileName is idempotent, and its result holds only letters,
\* digits, '.', '_' and '-', has no two consecutive underscores and neither
\* starts nor ends with an underscore.
C21_SanitizeIdempotent ==
  /\ pc \in {"sanitized", "sanitized twice"} =>
       /\ \A k \in 1..Len(doc) : doc[k] \in {"a", ".", "-", "_"}
       /\ \A k \in 1..(Len(doc) - 1) : ~(doc[k] = "_" /\ doc[k + 1] = "_")
       /\ doc # <<>> => doc[1] # "_" /\ doc[Len(doc)] # "_"
  /\ pc = "sanitized twice" => ret = doc

\* a name with leading, trailing and repeated unsafe characters and underscores
\* has been sanitized twice
C21_Witness ==
  /\ pc = "sanitized twice"
  /\ arg = <<" ", "a", "_", "/">>
  /\ doc = <<"a">>
  /\ ret = <<"a">>

\* an interior run of unsafe characters and underscores becomes one underscore
C21_RunReached ==
  /\ pc = "sanitized twice"
  /\ arg = <<"a", " ", "_", "a">>
  /\ ret = <<"a", "_", "a">>

\* while an archive is in its pipeline, every archive before it has its result
\* recorded, and no archive after it has been touched
OneCourseAtATime ==
  /\ Len(conversionResults) = courseIndex
  /\ pc \notin {"loop", "returned"} => courseIndex < Len(arg)
  /\ fs.temp \subseteq {arg[k].fileName : k \in 1..courseIndex}
                        \cup (IF pc \in {"loop", "returned", "extract"} THEN {}
                              ELSE {arg[courseIndex + 1].fileName})
  /\ \A name \in DOMAIN fs.output :
       \E k \in 1..courseIndex : arg[k].fileName = fs.output[name]

\* a step goes to the next archive only by recording the result of the current
\* one, and changes the filesystem only under the name of the current archive
StepOfCurrentCourse ==
  /\ courseIndex' \in {courseIndex, courseIndex + 1}
  /\ courseIndex' = courseIndex + 1 =>
       /\ Len(conversionResults') = courseIndex'
       /\ conversionResults'[courseIndex'].fileName = arg[courseIndex'].fileName
  /\ fs' # fs =>
       /\ pc \in {"extract", "output"}
       /\ \A name \in (fs'.temp \ fs.temp) \cup (fs.temp \ fs'.temp) :
            name = arg[courseIndex + 1].fileName
       /\ \A name \in DOMAIN fs'.output :
            \/ name \in DOMAIN fs.output /\ fs'.output[name] = fs.output[name]
            \/ fs'.output[name] = arg[courseIndex + 1].fileName

\* C22: processCourses handles the archives strictly one at a time in input
\* order: the extraction of an archive does not begin before the pipeline of the
\* archive before it has finished and its result has been recorded, and the
\* filesystem operations of two courses never interleave.
C22_OneAtATime == []OneCourseAtATime /\ [][StepOfCurrentCourse]_vars

\* the second archive is about to be extracted after the first one was converted
\* and recorded
C22_Witness ==
  /\ pc = "extract"
  /\ courseIndex = 1
  /\ Len(conversionResults) = 1
  /\ conversionResults[1].success
  /\ fs.temp = {arg[1].fileName}
  /\ DOMAIN fs.output = {Trim(arg[1].fileName)}

\* C23 as stated: once processCourses has finished a course, whether it
\* succeeded or failed, the extraction directory of the course under the temp
\* root no longer exists, and after the whole run no extraction directory is left.
C23_AsStated ==
  /\ \A k \in 1..Len(conversionResults) : arg[k].fileName \notin fs.temp
  /\ pc = "returned" => fs.temp = {}

\* what the code does remove: the directory of an archive that tar cannot extract
C23_FailedExtractionRemoved ==
  \A k \in 1..Len(conversionResults) :
    (\A j \in 1..Len(conversionResults) : arg[j].fileName = arg[k].fileName => arg[j].tar # "ok")
      => arg[k].fileName \notin fs.temp

\* the entries of the input directory that end in .tar.gz, joined to the directory
RECURSIVE JoinedArchives(_, _)
JoinedArchives(path, entries) ==
  IF entries = <<>> THEN <<>>
  ELSE (IF Head(entries)[Len(Head(entries))] = ".tar.gz"
        THEN <<path \o <<"/">> \o Head(entries)>> ELSE <<>>)
       \o JoinedArchives(path, Tail(entries))

\* the archives of a valid input path, <<>> for an invalid one
ExpectedFiles ==
  IF arg.kind = "file" /\ arg.path[Len(arg.path)] = ".tar.gz" THEN <<arg.path>>
  ELSE IF arg.kind = "directory" THEN JoinedArchives(arg.path, arg.entries)
  ELSE <<>>

\* the cases in which the claim has getFileInfo throw
MustThrow ==
  \/ arg.kind = "absent"
  \/ arg.kind = "file" /\ ExpectedFiles = <<>>
  \/ arg.kind = "directory" /\ ExpectedFiles = <<>>

InputValidated ==
  /\ pc = "info" => /\ ret.val.isValid <=> ExpectedFiles # <<>>
                    /\ ret.val.files = ExpectedFiles
                    /\ ~MustThrow
  /\ pc = "info threw" => MustThrow
  /\ pc = "validated" => ret.val = (ExpectedFiles # <<>>)
  /\ pc # "validate threw"
  /\ pc \in {"setup", "processing"} => ExpectedFiles # <<>> /\ ret.val = ExpectedFiles
  /\ pc = "processing" => tree = ExpectedFiles /\ fs.outputDir = "exists"
  /\ pc \in {"setup threw", "exit 1"} =>
       ExpectedFiles = <<>> /\ ret.msg = <<"Input validation failed">>

\* a throw of validateAndSetup leaves the output directory as it was, and no
\* course is processed after it
NothingAfterThrow ==
  /\ pc' = "setup threw" => fs' = fs
  /\ pc = "setup threw" => pc' = "exit 1" /\ fs' = fs /\ conversionResults' = <<>>

C24_ValidReached ==
  /\ pc = "processing"
  /\ arg.entries = <<<<"b", ".tar.gz">>, <<"a", ".zip">>, <<"a", ".tar.gz">>>>
  /\ tree = <<<<"in", "/", "b", ".tar.gz">>, <<"in", "/", "a", ".tar.gz">>>>

\* the texts that the problems of the model use as p and label
PromptTexts == {"Pick", "Which?", "Solve"}

\* the tokens that start a line of a type-specific body
BodyMarkers ==
  {"- ", "[[ ", "    [[", "    [[ ]]", "    [[Enter a number]]",
   "*only multiple/single choice, dropdown, text and number input "}

PositionsOf(d, tokens) == {k \in 1..Len(d) : d[k] \in tokens}

\* the paragraphs of the p and then the label of the element, as they are joined
ExpectedPrompt(node) ==
  Join((IF Attr(node, "<p>") # "" THEN <<(<<Attr(node, "<p>"), NL>>)>> ELSE <<>>)
       \o (IF Attr(node, "<label>") # "" THEN <<(<<Attr(node, "<label>"), NL>>)>>
           ELSE <<>>), NL)

StartsWith(d, part) == Len(d) >= Len(part) /\ SubSeq(d, 1, Len(part)) = part

\* prompt lines, then body lines, then hint lines
Ordered(d) ==
  /\ \A q \in PositionsOf(d, PromptTexts) :
       \A b \in PositionsOf(d, BodyMarkers \cup {"- [[?]] "}) : q < b
  /\ \A b \in PositionsOf(d, BodyMarkers) : \A h \in PositionsOf(d, {"- [[?]] "}) : b < h

\* the response elements that the renderer of the problem's type renders (a bare
\* element is skipped), and the problem itself for a type without a renderer
RenderedElements ==
  CASE ret.val.problemType = "multiple_choice" ->
         SelectSeq(KidsOf(ProblemNode, "multiplechoiceresponse")
                   \o KidsOf(ProblemNode, "choiceresponse"), LAMBDA e : ~IsBare(e))
    [] ret.val.problemType = "choice" -> KidsOf(ProblemNode, "choiceresponse")
    [] ret.val.problemType = "selection" -> KidsOf(ProblemNode, "optionresponse")
    [] ret.val.problemType = "text_input" -> KidsOf(ProblemNode, "stringresponse")
    [] ret.val.problemType = "number_input" -> KidsOf(ProblemNode, "numericalresponse")
    [] OTHER -> <<ProblemNode>>

AfterSeparator(d) == IF d # <<>> /\ d[1] = NL THEN Tail(d) ELSE d

\* the document of one response element: its prompt, then body, then hints
ElementPart(d, e) == StartsWith(d, ExpectedPrompt(e)) /\ Ordered(d)

\* the document of a problem without a renderer: the p of the problem, then the
\* display name, then the notice and the hints; the label is not emitted
UnsupportedPart(d) ==
  /\ StartsWith(d, Join((IF Attr(ProblemNode, "<p>") # ""
                         THEN <<(<<Attr(ProblemNode, "<p>"), NL>>)>> ELSE <<>>)
                        \o <<(<<ret.val.displayName, NL>>)>>, NL))
  /\ PositionsOf(d, {Attr(ProblemNode, "<label>")}) = {}
  /\ Ordered(d)

C25_UnsupportedReached ==
  /\ pc = "done"
  /\ ret.val.problemType = "formula"
  /\ Attr(ProblemNode, "<label>") = "Which?"
  /\ StartsWith(doc.val, <<"Solve", NL, NL, "Quiz", NL>>)

\* the problem holds a multiplechoiceresponse with a choicegroup and a
\* choiceresponse with a checkboxgroup, and is classified as multiple_choice
BothChoiceLists ==
  /\ pc = "done"
  /\ ret.val.problemType = "multiple_choice"
  /\ Present(ProblemNode, "multiplechoiceresponse")
  /\ Present(ProblemNode.kids["multiplechoiceresponse"][1], "choicegroup")
  /\ Present(ProblemNode, "choiceresponse")
  /\ Present(ProblemNode.kids["choiceresponse"][1], "checkboxgroup")

\* C26 as stated: for such a problem renderMultipleChoiceProblem renders both
\* choice lists, the list of the multiplechoiceresponse first and the list of
\* the checkboxgroup second, each list complete and in source order.
C26_AsStated ==
  BothChoiceLists =>
    BulletsFrom(doc.val, 1) =
      ExpectedBullets(GroupChoices(ProblemNode, "multiplechoiceresponse", "choicegroup"),
                      "[[X]]", "[[ ]]")
      \o ExpectedBullets(GroupChoices(ProblemNode, "choiceresponse", "checkboxgroup"),
                         "[[X]]", "[[ ]]")

\* the same when neither list has exactly one choice
C26_TwoOrMore ==
  (/\ Len(GroupChoices(ProblemNode, "multiplechoiceresponse", "choicegroup")) # 1
   /\ Len(GroupChoices(ProblemNode, "choiceresponse", "checkboxgroup")) # 1)
    => C26_AsStated

\* two different lists of two choices are rendered one after the other
C26_BothReached ==
  /\ BothChoiceLists
  /\ BulletsFrom(doc.val, 1) =
       <<[marker |-> "[[ ]]", text |-> "C"], [marker |-> "[[X]]", text |-> "A"],
         [marker |-> "[[ ]]", text |-> "B"], [marker |-> "[[ ]]", text |-> "C"]>>

\* after the transformation the tree is the one that buildCourseTree returned
TreeAsBuilt == pc # "start" => tree = buildCourseTree(dir)

\* the step of transformCourseToMarkdown leaves the tree and the directory alone
TransformKeepsTree == pc = "built" => tree' = tree /\ dir' = dir

NodesValid(nodes) ==
  \A k \in 1..Len(nodes) :
    /\ nodes[k].id # ""
    /\ nodes[k].title # <<>> /\ nodes[k].title # <<"">>

TreeValid(courseTree) ==
  /\ courseTree.title # <<>> /\ courseTree.title # <<"">>
  /\ DOMAIN courseTree.chapters = 1..Len(courseTree.chapters)
  /\ NodesValid(courseTree.chapters)
  /\ NodesValid(SequentialsOf(courseTree))
  /\ NodesValid(VerticalsOf(courseTree))

\* C28: every tree returned by buildCourseTree has a non-empty title and a
\* chapters sequence, and every chapter, sequential and vertical node has a
\* non-empty id and a non-empty title; hence the validity checks of
\* transformCourseToMarkdown and transformNodeToMarkdown never fire on it.
C28_BuiltTreeValid ==
  /\ (pc # "start" /\ tree.ok) => TreeValid(tree.val)
  /\ pc = "failed" => ~tree.ok
  /\ (pc = "done") => doc.ok

\* a tree was built from a course that declares a chapter without url_name
\* beside a chapter without display_name, and was transformed
C28_Witness ==
  /\ pc = "done"
  /\ Len(tree.val.chapters) = 1
  /\ tree.val.chapters[1].title = <<tree.val.chapters[1].id>>
  /\ "chapter" \in DOMAIN CourseDetailFile.node.kids
  /\ \E k \in 1..Len(CourseDetailFile.node.kids["chapter"]) :
       ~HasUrlName(CourseDetailFile.node.kids["chapter"][k])
  /\ VerticalsOf(tree.val) # <<>>

\* C29 as stated: within one run two distinct archives never use the same
\* output directory, so the course.md of a converted course is never overwritten
\* by another course of the batch.
C29_AsStated ==
  /\ \A i, j \in 1..Len(conversionResults) :
       (/\ arg[i].fileName # arg[j].fileName
        /\ conversionResults[i].success /\ conversionResults[j].success)
         => conversionResults[i].outputPath # conversionResults[j].outputPath
  /\ \A k \in 1..Len(conversionResults) :
       conversionResults[k].success
         => fs.output[conversionResults[k].outputPath[3]] = arg[k].fileName

\* the extraction directories of the archives that tar could extract are as
\* many as the names of those archives
C29_TempDistinct ==
  pc = "returned" =>
    /\ fs.temp = {arg[k].fileName : k \in {n \in 1..Len(arg) : arg[n].tar = "ok"}}
    /\ \A i, j \in 1..Len(arg) :
         arg[i].fileName # arg[j].fileName
           => TEMP_ROOT \o "/" \o arg[i].fileName # TEMP_ROOT \o "/" \o arg[j].fileName

\* C30 as stated: processMediaFiles never lets one media file overwrite
\* another: distinct media files found under static/ are copied to distinct
\* file names, so the returned count equals the number of files in the media
\* directory afterwards; a file whose copy fails is skipped and not counted,
\* without aborting the remaining copies.
C30_AsStated ==
  (pc \in {"copied", "rewritten"}) =>
    /\ \A j, k \in 1..Len(ret.val.copies) :
         j # k => ret.val.copies[j].name # ret.val.copies[k].name
    /\ ret.val.copiedCount = Cardinality(DOMAIN ret.val.media)
    /\ \A k \in 1..Len(dir.static.files) :
         (/\ dir.static.files[k].readable
          /\ LowerCase(dir.static.files[k].relativePath[Len(dir.static.files[k].relativePath)])
               \in mediaExtensions)
           <=> \E n \in 1..Len(ret.val.copies) :
                 ret.val.copies[n].source = dir.static.files[k].relativePath

\* what holds of the count: it is the number of readable media files, a file
\* whose copy fails is skipped without aborting the remaining copies
C30_FailedCopySkipped ==
  (pc \in {"copied", "rewritten"}) =>
    /\ ret.val.copiedCount = Len(ret.val.copies)
    /\ \A k \in 1..Len(dir.static.files) :
         (/\ dir.static.files[k].readable
          /\ LowerCase(dir.static.files[k].relativePath[Len(dir.static.files[k].relativePath)])
               \in mediaExtensions)
           <=> \E n \in 1..Len(ret.val.copies) :
                 ret.val.copies[n].source = dir.static.files[k].relativePath

\* the copy of the first file failed and the second file was copied
C30_SkipReached ==
  /\ pc = "copied"
  /\ Len(dir.static.files) = 2
  /\ ~dir.static.files[1].readable
  /\ ret.val.copiedCount = 1
  /\ DOMAIN ret.val.media = {<<"a", ".png">>}

====
